---- MODULE Spec2Model ----
(***************************************************************************)
(* Model of the task progress and lifecycle engine of web/app.js: the      *)
(* presentation-generation flow (generatePresentation, the status poller,  *)
(* the smoothing timer, recovery through viewReport/fetchPresentationStatus*)
(* and stopPresentationGeneration) and the report-generation flow          *)
(* (generateReport with its feedback, polling and smoothing timers).       *)
(*                                                                         *)
(* Conventions.                                                            *)
(*  - Progress values are JavaScript numbers; they are kept here in        *)
(*    hundredths of a percent (Pct(5) is 5%), products are truncated.      *)
(*  - null, '' and 0 are falsy alike in every place the code tests them;   *)
(*    a null report name or handle is "" / FALSE / 0 here.                 *)
(*  - Date.now() is an input: a phase start stamp is kept as set / unset   *)
(*    and the elapsed time is drawn at each use.                           *)
(*  - An await is a position: the pending continuation is kept in the bag  *)
(*    `calls` until the response is delivered.                             *)
(***************************************************************************)
EXTENDS Integers, Sequences, FiniteSets, Bags, TLC

\* ------------------------------------------------------------------ bounds

\* user commands (clicks) issued in one run
MaxUserActions == 3
\* firings of the smoothing interval timers in one run
MaxTicks == 2
\* polling sessions (closures of startPresentationPolling) in one run
MaxPollers == 2
\* status requests one polling session issues in the general specification
MaxPolls == 2
\* status requests issued beyond the attempt budget in the budget specification
MaxExtraPolls == 2
\* status requests of one polling session pending at a time in the budget specification
MaxPendingPolls == 2
\* report status requests pending at a time
MaxReportPolls == 2

\* user actions and smoothing ticks together, in the specification of both flows
MaxJobSteps == 3

\* ------------------------------------------------------------------ helpers

Pct(n) == n * 100

Min2(a, b) == IF a <= b THEN a ELSE b

Max2(a, b) == IF a >= b THEN a ELSE b

Max3(a, b, c) == Max2(a, Max2(b, c))

\* Math.max(0, Math.min(100, x)) on hundredths
Clamp100(x) == Max2(0, Min2(Pct(100), x))

\* Math.round(n / d) for n >= 0, d > 0
Round(n, d) == (2 * n + d) \div (2 * d)

\* ------------------------------------------------------------------ inputs

Reports == {"reportA"}

ExecIds == {"E1", "E2"}

Sessions == {"S1", "S2"}

\* status texts of the workflow service as the backend relays them
StatusTexts == {"", "init", "executing", "finish", "failed"}

\* text.includes(key) for the status texts above
includes(text, key) ==
    CASE text = "executing" -> key = "executing"
      [] text = "finish" -> key = "finish"
      [] text = "failed" -> key \in {"fail", "failed"}
      [] OTHER -> FALSE

\* ------------------------------------------------------------------ phase profiles

\* the profiles with a lighter last stage
getPresentationStageProfilesLight ==
    << [expectedMs |-> 120000, weight |-> 18,
        keywords |-> {"markdown", "zh_parse", "zh_plan", "zh_structure", "outline"}],
       [expectedMs |-> 300000, weight |-> 34,
        keywords |-> {"4k", "zh_demo", "zh_manuscript", "zh_image", "slide", "presentation"}],
       [expectedMs |-> 260000, weight |-> 33,
        keywords |-> {"4k", "zh_infographic", "infographic", "zh_chart"}],
       [expectedMs |-> 90000, weight |-> 12,
        keywords |-> {"pdf", "zh_download", "zh_link", "zh_merge", "export"}] >>

getPresentationStageProfiles ==
    << [expectedMs |-> 120000, weight |-> 18,
        keywords |-> {"markdown", "zh_parse", "zh_plan", "zh_structure", "outline"}],
       [expectedMs |-> 300000, weight |-> 34,
        keywords |-> {"4k", "zh_demo", "zh_manuscript", "zh_image", "slide", "presentation"}],
       [expectedMs |-> 260000, weight |-> 33,
        keywords |-> {"4k", "zh_infographic", "infographic", "zh_chart"}],
       [expectedMs |-> 90000, weight |-> 15,
        keywords |-> {"pdf", "zh_download", "zh_link", "zh_merge", "export"}] >>

\* profiles[i] with the code's 0-based index
Profile(i) == getPresentationStageProfiles[i + 1]

TotalStages == Len(getPresentationStageProfiles)

StageIdx == 0 .. (TotalStages - 1)

normalizeReflyStageStatus(rawStatus) ==
    IF rawStatus = "" THEN "pending"
    ELSE IF \E key \in {"finish", "finished", "completed", "success", "succeeded", "done"} :
                includes(rawStatus, key) THEN "finished"
    ELSE IF \E key \in {"fail", "failed", "error", "cancelled", "canceled", "aborted", "stopped"} :
                includes(rawStatus, key) THEN "failed"
    ELSE IF \E key \in {"executing", "running", "processing", "in_progress", "working"} :
                includes(rawStatus, key) THEN "running"
    ELSE "pending"

\* a node title is the set of profile keywords it contains
Score(title, i) == Cardinality(Profile(i).keywords \cap title)

\* the stage with the highest keyword score, the first of them on a tie
BestStage(title) ==
    CHOOSE i \in StageIdx :
        /\ \A j \in StageIdx : Score(title, j) <= Score(title, i)
        /\ \A j \in StageIdx : Score(title, j) = Score(title, i) => i <= j

matchPresentationStageIndex(title, fallbackIndex) ==
    IF \E i \in StageIdx : Score(title, i) > 0 THEN BestStage(title)
    ELSE IF fallbackIndex >= 0 /\ fallbackIndex < TotalStages THEN fallbackIndex
    ELSE -1

getPresentationStageBaseProgress(stageIndex) ==
    LET index == Max2(0, Min2(TotalStages, stageIndex))
        w(i) == IF i < index THEN Profile(i).weight ELSE 0
    IN  w(0) + w(1) + w(2) + w(3)

getPresentationStageWeight(stageIndex) ==
    Profile(Max2(0, Min2(TotalStages - 1, stageIndex))).weight

getPresentationStageExpectedDuration(stageIndex) ==
    Profile(Max2(0, Min2(TotalStages - 1, stageIndex))).expectedMs

getPriority(status) ==
    CASE status = "finished" -> 4
      [] status = "failed" -> 3
      [] status = "running" -> 2
      [] OTHER -> 1

\* the per-node progress of the forEach body, in percent
NodeStageProgress(status, elapsedMs, expectedMs) ==
    LET rounded == IF elapsedMs > 0 THEN Round(elapsedMs * 100, expectedMs) ELSE 0
    IN  CASE status = "finished" -> 100
          [] status = "running" -> Min2(92, Max2(12, rounded))
          [] status = "failed" -> Min2(96, Max2(25, IF rounded = 0 THEN 60 ELSE rounded))
          [] OTHER -> 0

\* the end of the forEach body: a node replaces its stage's entry when its
\* status has priority, or the same status and no less progress
ReplaceStage(stageData, stageIndex, status, stageProgress) ==
    IF \/ getPriority(status) > getPriority(stageData[stageIndex].status)
       \/ /\ status = stageData[stageIndex].status
          /\ stageProgress >= stageData[stageIndex].progress
    THEN [stageData EXCEPT ![stageIndex] =
             [status |-> status, progress |-> Max2(0, Min2(100, stageProgress))]]
    ELSE stageData

\* the forEach body for a node matched to stageIndex, its status normalised
ApplyNodeAt(stageData, node, stageIndex, status) ==
    IF stageIndex < 0 \/ stageIndex >= TotalStages THEN stageData
    ELSE ReplaceStage(stageData, stageIndex, status,
                      NodeStageProgress(status, node.elapsedMs,
                                        Profile(stageIndex).expectedMs))

\* one iteration of outputs.forEach: node is [title, status, elapsedMs]
ApplyNode(stageData, node, nodeIndex) ==
    ApplyNodeAt(stageData, node, matchPresentationStageIndex(node.title, nodeIndex),
                normalizeReflyStageStatus(node.status))

RECURSIVE FoldNodes(_, _, _)
FoldNodes(stageData, outputs, k) ==
    IF k > Len(outputs) THEN stageData
    ELSE FoldNodes(ApplyNode(stageData, outputs[k], k - 1), outputs, k + 1)

FirstWith(stageData, status) ==
    IF \E i \in StageIdx : stageData[i].status = status
    THEN CHOOSE i \in StageIdx :
            /\ stageData[i].status = status
            /\ \A j \in StageIdx : stageData[j].status = status => i <= j
    ELSE -1

LastWith(stageData, status) ==
    IF \E i \in StageIdx : stageData[i].status = status
    THEN CHOOSE i \in StageIdx :
            /\ stageData[i].status = status
            /\ \A j \in StageIdx : stageData[j].status = status => j <= i
    ELSE -1

\* Math.round((weighted / totalWeight) * 100) over the stage entries
WeightedProgress(stageData) ==
    Round(stageData[0].progress * Profile(0).weight
          + stageData[1].progress * Profile(1).weight
          + stageData[2].progress * Profile(2).weight
          + stageData[3].progress * Profile(3).weight,
          Profile(0).weight + Profile(1).weight + Profile(2).weight + Profile(3).weight)

\* the three corrections of the weighted progress, in the code's order
\* the weighted progress passed on without the floor of a processing job
AtLeast5WhileProcessingOff(progress, isProcessing) ==
    progress

AtLeast5WhileProcessing(progress, isProcessing) ==
    IF isProcessing /\ progress < 5 THEN 5 ELSE progress

AtLeast96WhenFinished(progress, workflowState) ==
    IF workflowState = "finished" /\ progress < 96 THEN 96 ELSE progress

AtMost99WhileProcessing(progress, isProcessing) ==
    IF isProcessing THEN Min2(99, progress) ELSE progress

\* the stage shown and its status: the first failed, else the first running,
\* else the first pending, else the last finished stage
PickStage(stageData) ==
    IF FirstWith(stageData, "failed") >= 0
    THEN << FirstWith(stageData, "failed"), "failed" >>
    ELSE IF FirstWith(stageData, "running") >= 0
    THEN << FirstWith(stageData, "running"), "running" >>
    ELSE IF FirstWith(stageData, "pending") >= 0
    THEN << FirstWith(stageData, "pending"), "pending" >>
    ELSE IF LastWith(stageData, "finished") >= 0
    THEN << Min2(TotalStages - 1, LastWith(stageData, "finished")), "finished" >>
    ELSE << 0, "pending" >>

\* the estimate once the nodes are folded into stageData
EstimateFrom(result, stageData) ==
    [progress |->
        Max2(0, Min2(100,
            AtMost99WhileProcessing(
                AtLeast96WhenFinished(
                    AtLeast5WhileProcessing(WeightedProgress(stageData), result.processing),
                    normalizeReflyStageStatus(result.workflow)),
                result.processing))),
     stageIndex |-> PickStage(stageData)[1],
     stageStatus |-> PickStage(stageData)[2],
     state |-> IF result.workflow # "" THEN result.workflow
               ELSE IF result.processing THEN "executing" ELSE "idle"]

\* the estimator without its early return on pdf_url
estimatePresentationProgressFromNodes(result) ==
    EstimateFrom(result,
        FoldNodes([i \in StageIdx |-> [status |-> "pending", progress |-> 0]],
                  result.outputs, 1))

\* result is [pdf_url, processing, execution_id, outputs, workflow]
estimatePresentationProgressFromRefly(result) ==
    IF result.pdf_url # ""
    THEN [progress |-> 100, stageIndex |-> TotalStages - 1,
          stageStatus |-> "finished", state |-> "completed"]
    ELSE EstimateFrom(result,
             FoldNodes([i \in StageIdx |-> [status |-> "pending", progress |-> 0]],
                       result.outputs, 1))

\* ------------------------------------------------------------------ state

VARIABLES
    \* presentation flow (app.js data fields)
    selectedReport, presentationPdfUrl, generatingSlides, presentationPolling,
    presentationPollInterval, presentationExecutionId, presentationPollingReportName,
    presentationProgress, presentationRawProgress, presentationStageIndex,
    presentationStageStatus, presentationState, presentationPhaseStartedAt,
    presentationSmoothTimer,
    \* report-generation flow (app.js data fields)
    currentSession, generatingReport, generatingReportSessionId, reportGenerationState,
    reportGenerationRequestStartedAt, reportGenerationTransitionTimer,
    reportGenerationResetTimer, reportGenerationPollInterval, reportGenerationSmoothTimer,
    reportGenerationProgress, reportGenerationRawProgress, reportGenerationPhaseStartedAt,
    reportGenerationStageIndex, reportGenerationServerState, reportGenerationLastError,
    \* the runtime: live timers, closures of the pollers, pending continuations
    timers, pollers, nextPoller, calls,
    \* run counters that bound the exploration
    userActions, ticks

vars ==
    << selectedReport, presentationPdfUrl, generatingSlides, presentationPolling,
       presentationPollInterval, presentationExecutionId, presentationPollingReportName,
       presentationProgress, presentationRawProgress, presentationStageIndex,
       presentationStageStatus, presentationState, presentationPhaseStartedAt,
       presentationSmoothTimer,
       currentSession, generatingReport, generatingReportSessionId, reportGenerationState,
       reportGenerationRequestStartedAt, reportGenerationTransitionTimer,
       reportGenerationResetTimer, reportGenerationPollInterval, reportGenerationSmoothTimer,
       reportGenerationProgress, reportGenerationRawProgress, reportGenerationPhaseStartedAt,
       reportGenerationStageIndex, reportGenerationServerState, reportGenerationLastError,
       timers, pollers, nextPoller, calls, userActions, ticks >>

\* the component object (`this`) with the runtime, as one record, so that a
\* handler is the composition of the methods it calls
This ==
    [ selectedReport |-> selectedReport,
      presentationPdfUrl |-> presentationPdfUrl,
      generatingSlides |-> generatingSlides,
      presentationPolling |-> presentationPolling,
      presentationPollInterval |-> presentationPollInterval,
      presentationExecutionId |-> presentationExecutionId,
      presentationPollingReportName |-> presentationPollingReportName,
      presentationProgress |-> presentationProgress,
      presentationRawProgress |-> presentationRawProgress,
      presentationStageIndex |-> presentationStageIndex,
      presentationStageStatus |-> presentationStageStatus,
      presentationState |-> presentationState,
      presentationPhaseStartedAt |-> presentationPhaseStartedAt,
      presentationSmoothTimer |-> presentationSmoothTimer,
      currentSession |-> currentSession,
      generatingReport |-> generatingReport,
      generatingReportSessionId |-> generatingReportSessionId,
      reportGenerationState |-> reportGenerationState,
      reportGenerationRequestStartedAt |-> reportGenerationRequestStartedAt,
      reportGenerationTransitionTimer |-> reportGenerationTransitionTimer,
      reportGenerationResetTimer |-> reportGenerationResetTimer,
      reportGenerationPollInterval |-> reportGenerationPollInterval,
      reportGenerationSmoothTimer |-> reportGenerationSmoothTimer,
      reportGenerationProgress |-> reportGenerationProgress,
      reportGenerationRawProgress |-> reportGenerationRawProgress,
      reportGenerationPhaseStartedAt |-> reportGenerationPhaseStartedAt,
      reportGenerationStageIndex |-> reportGenerationStageIndex,
      reportGenerationServerState |-> reportGenerationServerState,
      reportGenerationLastError |-> reportGenerationLastError,
      timers |-> timers,
      pollers |-> pollers,
      nextPoller |-> nextPoller,
      calls |-> calls ]

Commit(t) ==
    /\ selectedReport' = t.selectedReport
    /\ presentationPdfUrl' = t.presentationPdfUrl
    /\ generatingSlides' = t.generatingSlides
    /\ presentationPolling' = t.presentationPolling
    /\ presentationPollInterval' = t.presentationPollInterval
    /\ presentationExecutionId' = t.presentationExecutionId
    /\ presentationPollingReportName' = t.presentationPollingReportName
    /\ presentationProgress' = t.presentationProgress
    /\ presentationRawProgress' = t.presentationRawProgress
    /\ presentationStageIndex' = t.presentationStageIndex
    /\ presentationStageStatus' = t.presentationStageStatus
    /\ presentationState' = t.presentationState
    /\ presentationPhaseStartedAt' = t.presentationPhaseStartedAt
    /\ presentationSmoothTimer' = t.presentationSmoothTimer
    /\ currentSession' = t.currentSession
    /\ generatingReport' = t.generatingReport
    /\ generatingReportSessionId' = t.generatingReportSessionId
    /\ reportGenerationState' = t.reportGenerationState
    /\ reportGenerationRequestStartedAt' = t.reportGenerationRequestStartedAt
    /\ reportGenerationTransitionTimer' = t.reportGenerationTransitionTimer
    /\ reportGenerationResetTimer' = t.reportGenerationResetTimer
    /\ reportGenerationPollInterval' = t.reportGenerationPollInterval
    /\ reportGenerationSmoothTimer' = t.reportGenerationSmoothTimer
    /\ reportGenerationProgress' = t.reportGenerationProgress
    /\ reportGenerationRawProgress' = t.reportGenerationRawProgress
    /\ reportGenerationPhaseStartedAt' = t.reportGenerationPhaseStartedAt
    /\ reportGenerationStageIndex' = t.reportGenerationStageIndex
    /\ reportGenerationServerState' = t.reportGenerationServerState
    /\ reportGenerationLastError' = t.reportGenerationLastError
    /\ timers' = t.timers
    /\ pollers' = t.pollers
    /\ nextPoller' = t.nextPoller
    /\ calls' = t.calls

\* the state is the record t
Is(t) ==
    /\ selectedReport = t.selectedReport
    /\ presentationPdfUrl = t.presentationPdfUrl
    /\ generatingSlides = t.generatingSlides
    /\ presentationPolling = t.presentationPolling
    /\ presentationPollInterval = t.presentationPollInterval
    /\ presentationExecutionId = t.presentationExecutionId
    /\ presentationPollingReportName = t.presentationPollingReportName
    /\ presentationProgress = t.presentationProgress
    /\ presentationRawProgress = t.presentationRawProgress
    /\ presentationStageIndex = t.presentationStageIndex
    /\ presentationStageStatus = t.presentationStageStatus
    /\ presentationState = t.presentationState
    /\ presentationPhaseStartedAt = t.presentationPhaseStartedAt
    /\ presentationSmoothTimer = t.presentationSmoothTimer
    /\ currentSession = t.currentSession
    /\ generatingReport = t.generatingReport
    /\ generatingReportSessionId = t.generatingReportSessionId
    /\ reportGenerationState = t.reportGenerationState
    /\ reportGenerationRequestStartedAt = t.reportGenerationRequestStartedAt
    /\ reportGenerationTransitionTimer = t.reportGenerationTransitionTimer
    /\ reportGenerationResetTimer = t.reportGenerationResetTimer
    /\ reportGenerationPollInterval = t.reportGenerationPollInterval
    /\ reportGenerationSmoothTimer = t.reportGenerationSmoothTimer
    /\ reportGenerationProgress = t.reportGenerationProgress
    /\ reportGenerationRawProgress = t.reportGenerationRawProgress
    /\ reportGenerationPhaseStartedAt = t.reportGenerationPhaseStartedAt
    /\ reportGenerationStageIndex = t.reportGenerationStageIndex
    /\ reportGenerationServerState = t.reportGenerationServerState
    /\ reportGenerationLastError = t.reportGenerationLastError
    /\ timers = t.timers
    /\ pollers = t.pollers
    /\ nextPoller = t.nextPoller
    /\ calls = t.calls

\* a pending continuation: the async function, the await it is parked at, and
\* the locals it still needs (a name, the poller closure it belongs to)
Call(fn, pc, name, poller) == [fn |-> fn, pc |-> pc, name |-> name, poller |-> poller]

Await(t, c) == [t EXCEPT !.calls = @ (+) SetToBag({c})]

Resume(t, c) == [t EXCEPT !.calls = @ (-) SetToBag({c})]

Pending(c) == BagIn(c, calls)

\* a polling session that was never started: the closure variables of
\* startPresentationPolling, with the number of "still generating" toasts it
\* showed and whether its guard dropped a response
NoPoller ==
    [executionId |-> "", reportName |-> "", attempts |-> 0,
     timeoutNotified |-> FALSE, toasts |-> 0, dropped |-> FALSE]

\* the data() object of the component and an idle runtime
InitThis ==
    [ selectedReport |-> "",
      presentationPdfUrl |-> "",
      generatingSlides |-> FALSE,
      presentationPolling |-> FALSE,
      presentationPollInterval |-> 0,
      presentationExecutionId |-> "",
      presentationPollingReportName |-> "",
      presentationProgress |-> 0,
      presentationRawProgress |-> 0,
      presentationStageIndex |-> 0,
      presentationStageStatus |-> "pending",
      presentationState |-> "idle",
      presentationPhaseStartedAt |-> FALSE,
      presentationSmoothTimer |-> FALSE,
      currentSession |-> "",
      generatingReport |-> FALSE,
      generatingReportSessionId |-> "",
      reportGenerationState |-> "idle",
      reportGenerationRequestStartedAt |-> 0,
      reportGenerationTransitionTimer |-> FALSE,
      reportGenerationResetTimer |-> FALSE,
      reportGenerationPollInterval |-> FALSE,
      reportGenerationSmoothTimer |-> FALSE,
      reportGenerationProgress |-> 0,
      reportGenerationRawProgress |-> 0,
      reportGenerationPhaseStartedAt |-> FALSE,
      reportGenerationStageIndex |-> 0,
      reportGenerationServerState |-> "queued",
      reportGenerationLastError |-> "",
      timers |-> [presentationSmooth |-> 0, presentationPoll |-> {},
                  reportSmooth |-> 0, reportPoll |-> 0,
                  reportTransition |-> 0, reportReset |-> 0],
      pollers |-> [c \in 1 .. MaxPollers |-> NoPoller],
      nextPoller |-> 1,
      calls |-> EmptyBag ]

Init ==
    /\ Is(InitThis)
    /\ userActions = 0
    /\ ticks = 0

\* ------------------------------------------------------------------ presentation: methods

stopPresentationProgressSmoothing(t) ==
    IF t.presentationSmoothTimer
    THEN [t EXCEPT !.timers.presentationSmooth = @ - 1,
                   !.presentationSmoothTimer = FALSE]
    ELSE t

\* startPresentationProgressSmoothing without the call of
\* stopPresentationProgressSmoothing: the handle is overwritten
startPresentationProgressSmoothingOverwrites(t) ==
    [t EXCEPT !.timers.presentationSmooth = @ + 1,
              !.presentationSmoothTimer = TRUE]

startPresentationProgressSmoothing(t) ==
    LET t1 == stopPresentationProgressSmoothing(t)
    IN  [t1 EXCEPT !.timers.presentationSmooth = @ + 1,
                   !.presentationSmoothTimer = TRUE]

resetPresentationProgressFeedback(t) ==
    [stopPresentationProgressSmoothing(t) EXCEPT
        !.presentationProgress = 0,
        !.presentationRawProgress = 0,
        !.presentationStageIndex = 0,
        !.presentationStageStatus = "pending",
        !.presentationState = "idle",
        !.presentationPhaseStartedAt = FALSE]

stopPresentationPolling(t) ==
    LET t1 == IF t.presentationPollInterval # 0
              THEN [t EXCEPT !.timers.presentationPoll = @ \ {t.presentationPollInterval},
                             !.presentationPollInterval = 0]
              ELSE t
        t2 == [t1 EXCEPT !.presentationPolling = FALSE,
                         !.presentationExecutionId = "",
                         !.presentationPollingReportName = ""]
    IN  [stopPresentationProgressSmoothing(t2) EXCEPT
            !.presentationProgress = 0,
            !.presentationRawProgress = 0,
            !.presentationStageIndex = 0,
            !.presentationStageStatus = "pending",
            !.presentationPhaseStartedAt = FALSE]

\* the stage index kept: the estimate's, within the stages
NextStageIndex(estimate) == Max2(0, Min2(TotalStages - 1, estimate.stageIndex))

\* the terminal lines of updatePresentationProgressFromResult
presentationCompleted(t) ==
    [stopPresentationProgressSmoothing(t) EXCEPT
        !.presentationRawProgress = Pct(100),
        !.presentationProgress = Pct(100),
        !.presentationState = "completed",
        !.presentationStageStatus = "finished"]

\* while running, raw and displayed progress only rise
raisePresentationProgress(t, raw) ==
    [t EXCEPT !.presentationRawProgress = raw,
              !.presentationProgress = Max2(@, raw)]

\* updatePresentationProgressFromResult from `if (result?.pdf_url)` on, t1 being
\* the state with stage, status and state taken from the estimate
updatePresentationProgress(t1, isRunning, result, estimate) ==
    IF result.pdf_url # "" THEN presentationCompleted(t1)
    ELSE IF ~isRunning THEN t1
    ELSE IF estimate.progress >= 100
    THEN presentationCompleted(
             raisePresentationProgress(t1,
                 Max3(t1.presentationRawProgress, Pct(estimate.progress), Pct(5))))
    ELSE raisePresentationProgress(t1,
             Max3(t1.presentationRawProgress, Pct(estimate.progress), Pct(5)))

\* updatePresentationProgressFromResult after its first line
updatePresentationFromEstimate(t, result, estimate) ==
    updatePresentationProgress(
        [t EXCEPT !.presentationStageIndex = NextStageIndex(estimate),
                  !.presentationStageStatus = estimate.stageStatus,
                  !.presentationState = estimate.state,
                  !.presentationPhaseStartedAt =
                      IF \/ NextStageIndex(estimate) # t.presentationStageIndex
                         \/ estimate.stageStatus # t.presentationStageStatus
                         \/ ~t.presentationPhaseStartedAt
                      THEN TRUE ELSE @],
        t.generatingSlides \/ t.presentationPolling, result, estimate)

updatePresentationProgressFromResult(t, result) ==
    updatePresentationFromEstimate(t, result, estimatePresentationProgressFromRefly(result))

\* the first statements of pollOnce: the guard, attempts += 1 and the request
pollOnce(t, c) ==
    IF \/ ~t.presentationPolling
       \/ t.presentationExecutionId # t.pollers[c].executionId
       \/ t.presentationPollingReportName # t.pollers[c].reportName
    THEN t
    ELSE Await([t EXCEPT !.pollers[c].attempts = @ + 1], Call("pollOnce", "status", "", c))

\* the first call of pollOnce, made before the interval is registered
firstPoll(t, c) == IF c \in DOMAIN t.pollers THEN pollOnce(t, c) ELSE t

\* startPresentationPolling past its early returns; c is the new closure
beginPresentationPolling(t, executionId, targetReportName, c) ==
    LET t1 == stopPresentationPolling(t)
        t2 == [t1 EXCEPT
                  !.presentationPolling = TRUE,
                  !.presentationExecutionId = executionId,
                  !.presentationPollingReportName = targetReportName,
                  !.presentationState = "executing",
                  !.presentationPhaseStartedAt = TRUE,
                  !.presentationRawProgress = Max2(@, Pct(5)),
                  !.presentationProgress = Max2(@, Pct(5))]
        t3 == startPresentationProgressSmoothing(t2)
        t4 == [t3 EXCEPT
                  !.nextPoller = c + 1,
                  !.pollers = IF c \in DOMAIN @
                              THEN [@ EXCEPT ![c] = [NoPoller EXCEPT
                                        !.executionId = executionId,
                                        !.reportName = targetReportName]]
                              ELSE @]
    IN  [firstPoll(t4, c) EXCEPT !.presentationPollInterval = c,
                                 !.timers.presentationPoll = @ \cup {c}]

\* startPresentationPolling with targetReportName computed
startPresentationPollingFor(t, executionId, targetReportName) ==
    IF executionId = "" THEN t
    ELSE IF targetReportName = "" THEN t
    ELSE IF /\ t.presentationPolling
            /\ t.presentationExecutionId = executionId
            /\ t.presentationPollingReportName = targetReportName THEN t
    ELSE beginPresentationPolling(t, executionId, targetReportName, t.nextPoller)

startPresentationPolling(t, executionId, reportName) ==
    startPresentationPollingFor(t, executionId,
        IF reportName # "" THEN reportName ELSE t.selectedReport)

\* the attempt budget of one polling session
maxAttempts == 200

\* pollOnce past its second guard, showing the toast whenever the budget is
\* used up, without the timeoutNotified flag
pollOnceHandleNotifyAlways(t1, c, result) ==
    IF result.pdf_url # ""
    THEN stopPresentationPolling(
             [t1 EXCEPT !.presentationPdfUrl = result.pdf_url,
                        !.presentationState = "completed",
                        !.presentationRawProgress = Pct(100),
                        !.presentationProgress = Pct(100)])
    ELSE IF t1.pollers[c].attempts >= maxAttempts
    THEN [t1 EXCEPT !.pollers[c].timeoutNotified = TRUE,
                    !.pollers[c].toasts = @ + 1]
    ELSE t1

\* pollOnce past its second guard, t1 being the state after
\* updatePresentationProgressFromResult
pollOnceHandle(t1, c, result) ==
    IF result.pdf_url # ""
    THEN stopPresentationPolling(
             [t1 EXCEPT !.presentationPdfUrl = result.pdf_url,
                        !.presentationState = "completed",
                        !.presentationRawProgress = Pct(100),
                        !.presentationProgress = Pct(100)])
    ELSE IF t1.pollers[c].attempts >= maxAttempts /\ ~t1.pollers[c].timeoutNotified
    THEN [t1 EXCEPT !.pollers[c].timeoutNotified = TRUE,
                    !.pollers[c].toasts = @ + 1]
    ELSE t1

\* pollOnceResponse with the guard after the await comparing the report name
\* only, not the execution id
pollOnceResponseAnyExecution(t, c, result) ==
    IF \/ ~t.presentationPolling
       \/ t.presentationPollingReportName # t.pollers[c].reportName
    THEN [t EXCEPT !.pollers[c].dropped = TRUE]
    ELSE pollOnceHandle(updatePresentationProgressFromResult(t, result), c, result)

\* pollOnce after the await: the status response arrived
pollOnceResponse(t, c, result) ==
    IF \/ ~t.presentationPolling
       \/ t.presentationExecutionId # t.pollers[c].executionId
       \/ t.presentationPollingReportName # t.pollers[c].reportName
    THEN [t EXCEPT !.pollers[c].dropped = TRUE]
    ELSE pollOnceHandle(updatePresentationProgressFromResult(t, result), c, result)

\* generatePresentation up to its await, without the assignment of 5 to
\* presentationProgress
generatePresentationStartFromZero(t) ==
    IF t.selectedReport = "" \/ t.generatingSlides THEN t
    ELSE
    LET t1 == [t EXCEPT !.generatingSlides = TRUE,
                        !.presentationPdfUrl = "",
                        !.presentationExecutionId = "",
                        !.presentationPolling = FALSE,
                        !.presentationState = "submitting",
                        !.presentationStageIndex = 0,
                        !.presentationStageStatus = "pending",
                        !.presentationPhaseStartedAt = TRUE,
                        !.presentationRawProgress = Pct(5)]
    IN  Await(startPresentationProgressSmoothing(t1),
              Call("generatePresentation", "refly", "", 0))

\* generatePresentation up to its await
generatePresentationStart(t) ==
    IF t.selectedReport = "" \/ t.generatingSlides THEN t
    ELSE
    LET t1 == [t EXCEPT !.generatingSlides = TRUE,
                        !.presentationPdfUrl = "",
                        !.presentationExecutionId = "",
                        !.presentationPolling = FALSE,
                        !.presentationState = "submitting",
                        !.presentationStageIndex = 0,
                        !.presentationStageStatus = "pending",
                        !.presentationPhaseStartedAt = TRUE,
                        !.presentationProgress = Pct(5),
                        !.presentationRawProgress = Pct(5)]
    IN  Await(startPresentationProgressSmoothing(t1),
              Call("generatePresentation", "refly", "", 0))

\* generatePresentation from `if (result?.processing)` on, without the branch
\* of pdf_url
generatePresentationHandleIgnoresArtifact(t1, result) ==
    IF result.processing
    THEN IF result.execution_id # ""
         THEN startPresentationPolling(t1, result.execution_id, t1.selectedReport)
         ELSE t1
    ELSE t1

\* generatePresentation from `if (result?.processing)` on, t1 being the state
\* after updatePresentationProgressFromResult
generatePresentationHandle(t1, result) ==
    IF result.processing
    THEN IF result.execution_id # ""
         THEN startPresentationPolling(t1, result.execution_id, t1.selectedReport)
         ELSE t1
    ELSE IF result.pdf_url # ""
    THEN stopPresentationProgressSmoothing(
             [t1 EXCEPT !.presentationPdfUrl = result.pdf_url,
                        !.presentationState = "completed",
                        !.presentationProgress = Pct(100),
                        !.presentationRawProgress = Pct(100)])
    ELSE t1

\* generatePresentation after the await, the response being `result`
generatePresentationResponse(t, result) ==
    [generatePresentationHandle(updatePresentationProgressFromResult(t, result), result)
        EXCEPT !.generatingSlides = FALSE]

\* generatePresentation after the await, the request having failed
generatePresentationCatch(t) ==
    [stopPresentationProgressSmoothing([t EXCEPT !.presentationState = "failed"])
        EXCEPT !.generatingSlides = FALSE]

\* fetchPresentationStatusHandle without the pdf_url branch: a status that
\* reports no execution in flight resets the feedback
fetchPresentationStatusHandleResets(t1, status) ==
    IF status.processing /\ status.execution_id # ""
    THEN startPresentationPolling(t1, status.execution_id, t1.selectedReport)
    ELSE resetPresentationProgressFeedback(t1)

\* fetchPresentationStatus from `if (status?.processing && ...)` on, t1 being
\* the state after updatePresentationProgressFromResult
fetchPresentationStatusHandle(t1, status) ==
    IF status.processing /\ status.execution_id # ""
    THEN startPresentationPolling(t1, status.execution_id, t1.selectedReport)
    ELSE IF status.pdf_url # ""
    THEN stopPresentationProgressSmoothing(
             [t1 EXCEPT !.presentationProgress = Pct(100),
                        !.presentationRawProgress = Pct(100),
                        !.presentationState = "completed"])
    ELSE resetPresentationProgressFeedback(t1)

\* fetchPresentationStatus after the await, the response being `status`
fetchPresentationStatusResponse(t, status) ==
    fetchPresentationStatusHandle(
        updatePresentationProgressFromResult(
            [t EXCEPT !.presentationPdfUrl = status.pdf_url], status),
        status)

fetchPresentationStatusCatch(t) ==
    resetPresentationProgressFeedback([t EXCEPT !.presentationPdfUrl = ""])

\* stopPresentationGeneration after the await, the abort having succeeded
stopPresentationGenerationResponse(t) ==
    [stopPresentationPolling(t) EXCEPT
        !.generatingSlides = FALSE,
        !.presentationExecutionId = "",
        !.presentationState = "stopped",
        !.presentationProgress = 0,
        !.presentationRawProgress = 0,
        !.presentationStageIndex = 0,
        !.presentationStageStatus = "pending",
        !.presentationPhaseStartedAt = FALSE]

\* phaseTarget of the smoothing callback, in hundredths: base + weight *
\* phaseRatio, phaseRatio = min(1, elapsed / expected), at most 99
presentationPhaseTarget(stageIndex, elapsed) ==
    Min2(Pct(99),
         Pct(getPresentationStageBaseProgress(stageIndex))
         + (Pct(getPresentationStageWeight(stageIndex))
            * Min2(elapsed, getPresentationStageExpectedDuration(stageIndex)))
           \div getPresentationStageExpectedDuration(stageIndex))

\* the last lines of the smoothing callback, advancing by the largest step
\* whatever the distance to the target
advancePresentationProgressFixedStep(t, current, backend, cappedTarget) ==
    IF cappedTarget > current + 10
    THEN [t EXCEPT !.presentationProgress = current + 120]
    ELSE IF backend > current + 10
    THEN [t EXCEPT !.presentationProgress = Min2(backend, current + 140)]
    ELSE t

\* the last lines of the smoothing callback
advancePresentationProgress(t, current, backend, cappedTarget) ==
    IF cappedTarget > current + 10
    THEN [t EXCEPT !.presentationProgress =
             Min2(cappedTarget,
                  current + Min2(120, ((cappedTarget - current) * 22) \div 100 + 18))]
    ELSE IF backend > current + 10
    THEN [t EXCEPT !.presentationProgress = Min2(backend, current + 140)]
    ELSE t

\* one firing of the smoothing interval without the test of presentationState
presentationSmoothTickWhileActive(t, elapsedMs) ==
    IF ~(t.generatingSlides \/ t.presentationPolling) THEN t
    ELSE advancePresentationProgress(t,
             Clamp100(t.presentationProgress),
             Clamp100(t.presentationRawProgress),
             Min2(Pct(99),
                  Max3(Clamp100(t.presentationProgress),
                       Clamp100(t.presentationRawProgress),
                       presentationPhaseTarget(t.presentationStageIndex,
                           IF t.presentationPhaseStartedAt THEN elapsedMs ELSE 0))))

\* one firing of the smoothing interval, elapsedMs being now - phase start
presentationSmoothTick(t, elapsedMs) ==
    IF ~(t.generatingSlides \/ t.presentationPolling) THEN t
    ELSE IF t.presentationState \in {"completed", "failed", "stopped"} THEN t
    ELSE advancePresentationProgress(t,
             Clamp100(t.presentationProgress),
             Clamp100(t.presentationRawProgress),
             Min2(Pct(99),
                  Max3(Clamp100(t.presentationProgress),
                       Clamp100(t.presentationRawProgress),
                       presentationPhaseTarget(t.presentationStageIndex,
                           IF t.presentationPhaseStartedAt THEN elapsedMs ELSE 0))))

\* ------------------------------------------------------------------ report generation: methods

\* the reading of Date.now() when a report request starts, in ms
DateNow == 1000 * 1000

clearReportGenerationTransitionTimer(t) ==
    IF t.reportGenerationTransitionTimer
    THEN [t EXCEPT !.timers.reportTransition = Max2(0, @ - 1),
                   !.reportGenerationTransitionTimer = FALSE]
    ELSE t

clearReportGenerationResetTimer(t) ==
    IF t.reportGenerationResetTimer
    THEN [t EXCEPT !.timers.reportReset = Max2(0, @ - 1),
                   !.reportGenerationResetTimer = FALSE]
    ELSE t

stopReportGenerationSmoothing(t) ==
    IF t.reportGenerationSmoothTimer
    THEN [t EXCEPT !.timers.reportSmooth = @ - 1,
                   !.reportGenerationSmoothTimer = FALSE]
    ELSE t

startReportGenerationSmoothing(t) ==
    [stopReportGenerationSmoothing(t) EXCEPT
        !.timers.reportSmooth = @ + 1,
        !.reportGenerationSmoothTimer = TRUE]

stopReportGenerationPolling(t) ==
    IF t.reportGenerationPollInterval
    THEN [t EXCEPT !.timers.reportPoll = @ - 1,
                   !.reportGenerationPollInterval = FALSE]
    ELSE t

startReportGenerationPolling(t, sessionId) ==
    IF sessionId = "" THEN stopReportGenerationPolling(t)
    ELSE [stopReportGenerationPolling(t) EXCEPT
             !.timers.reportPoll = @ + 1,
             !.reportGenerationPollInterval = TRUE]

startReportGenerationFeedback(t) ==
    LET t1 == clearReportGenerationResetTimer(clearReportGenerationTransitionTimer(t))
        t2 == [t1 EXCEPT !.reportGenerationRequestStartedAt = DateNow,
                         !.reportGenerationState = "submitting",
                         !.reportGenerationPhaseStartedAt = TRUE,
                         !.reportGenerationProgress = Pct(5),
                         !.reportGenerationRawProgress = Pct(5),
                         !.reportGenerationStageIndex = 0,
                         !.reportGenerationServerState = "queued",
                         !.reportGenerationLastError = ""]
    IN  [startReportGenerationSmoothing(t2) EXCEPT
            !.timers.reportTransition = @ + 1,
            !.reportGenerationTransitionTimer = TRUE]

\* the callback of the 450 ms transition timer
reportGenerationTransition(t) ==
    IF t.reportGenerationState = "submitting"
    THEN [t EXCEPT !.reportGenerationState = "running",
                   !.reportGenerationProgress = Max2(@, Pct(8)),
                   !.reportGenerationRawProgress = Max2(@, Pct(8))]
    ELSE t

finishReportGenerationFeedback(t, result, errorMessage) ==
    LET t1 == clearReportGenerationResetTimer(clearReportGenerationTransitionTimer(t))
        t2 == [t1 EXCEPT
                  !.reportGenerationState = IF result = "success" THEN "success" ELSE "error",
                  !.reportGenerationServerState =
                      IF result = "success" THEN "completed" ELSE "failed",
                  !.reportGenerationLastError = IF result = "error" THEN errorMessage ELSE "",
                  !.reportGenerationProgress = Pct(100),
                  !.reportGenerationRawProgress = Pct(100)]
    IN  [stopReportGenerationSmoothing(t2) EXCEPT
            !.timers.reportReset = @ + 1,
            !.reportGenerationResetTimer = TRUE]

resetReportGenerationFeedback(t) ==
    LET t1 == clearReportGenerationResetTimer(clearReportGenerationTransitionTimer(t))
        t2 == stopReportGenerationSmoothing(stopReportGenerationPolling(t1))
    IN  [t2 EXCEPT !.reportGenerationState = "idle",
                   !.reportGenerationRequestStartedAt = 0,
                   !.reportGenerationProgress = 0,
                   !.reportGenerationRawProgress = 0,
                   !.reportGenerationPhaseStartedAt = FALSE,
                   !.reportGenerationStageIndex = 0,
                   !.reportGenerationServerState = "queued",
                   !.reportGenerationLastError = ""]

isReportGenerationProcessing(t) ==
    t.reportGenerationState \in {"submitting", "running"}

isGeneratingCurrentReport(t) ==
    IF ~t.generatingReport THEN FALSE
    ELSE t.currentSession # "" /\ t.currentSession = t.generatingReportSessionId

\* the assignments of the poll callback, state being data.state or the last one
reportPollUpdate(t, data, state, raw) ==
    [t EXCEPT
        !.reportGenerationPhaseStartedAt =
            IF state # t.reportGenerationServerState THEN TRUE ELSE @,
        !.reportGenerationServerState = state,
        !.reportGenerationState = IF state = "queued" THEN "submitting" ELSE "running",
        !.reportGenerationRawProgress = raw,
        !.reportGenerationProgress = Max2(@, raw),
        !.reportGenerationStageIndex = IF data.stage_index >= 0 THEN data.stage_index ELSE @,
        !.reportGenerationLastError = IF data.message THEN "" ELSE @]

\* the poll callback from `const state = ...` on, without the comparison of
\* updated_at with the start of the request
reportPollHandleUnfiltered(t, data, state) ==
    IF ~data.active /\ state \in {"completed", "failed"}
    THEN stopReportGenerationPolling(
             reportPollUpdate(t, data, state,
                 Max2(t.reportGenerationRawProgress, Clamp100(Pct(data.progress)))))
    ELSE reportPollUpdate(t, data, state,
             Max2(t.reportGenerationRawProgress, Clamp100(Pct(data.progress))))

\* the poll callback from `const state = ...` on
reportPollHandle(t, data, state) ==
    IF /\ data.updated_at # 0
       /\ t.reportGenerationRequestStartedAt # 0
       /\ data.updated_at + 500 < t.reportGenerationRequestStartedAt
    THEN t
    ELSE IF ~data.active /\ state \in {"completed", "failed"}
    THEN stopReportGenerationPolling(
             reportPollUpdate(t, data, state,
                 Max2(t.reportGenerationRawProgress, Clamp100(Pct(data.progress)))))
    ELSE reportPollUpdate(t, data, state,
             Max2(t.reportGenerationRawProgress, Clamp100(Pct(data.progress))))

\* the poll callback after its await; data is
\* [state, progress, stage_index, active, updated_at, message]
reportPollResponse(t, data) ==
    reportPollHandle(t, data,
        IF data.state # "" THEN data.state ELSE t.reportGenerationServerState)

getReportGenerationExpectedDuration(state) ==
    CASE state = "queued" -> 2500
      [] state = "building_prompt" -> 9000
      [] state = "generating" -> 52000
      [] state = "fallback" -> 18000
      [] state = "saving" -> 5000
      [] OTHER -> 8000

\* in hundredths of a percent
getReportGenerationPhaseTargetProgress(t, state) ==
    LET target ==
            CASE state = "queued" -> Pct(12)
              [] state = "building_prompt" -> Pct(36)
              [] state = "generating" -> Pct(86)
              [] state = "fallback" -> Pct(90)
              [] state = "saving" -> Pct(97)
              [] state = "completed" -> Pct(100)
              [] state = "failed" ->
                    IF t.reportGenerationProgress # 0 THEN t.reportGenerationProgress
                    ELSE IF t.reportGenerationRawProgress # 0 THEN t.reportGenerationRawProgress
                    ELSE Pct(90)
              [] OTHER -> Pct(90)
    IN  Clamp100(target)

\* hardCeiling of the smoothing callback, in hundredths
reportHardCeiling(state) ==
    IF state = "saving" THEN Pct(99)
    ELSE IF state = "generating" THEN Pct(94)
    ELSE Pct(96)

\* phaseTarget * phaseRatio, phaseRatio = min(1, elapsed / expected)
reportPhasePart(phaseTarget, elapsed, expected) ==
    (phaseTarget * Min2(elapsed, expected)) \div expected

\* the last lines of the smoothing callback, assigning the target at once
advanceReportProgressJumps(t, current, backend, cappedTarget) ==
    IF cappedTarget > current + 10
    THEN [t EXCEPT !.reportGenerationProgress = cappedTarget]
    ELSE IF backend > current + 10
    THEN [t EXCEPT !.reportGenerationProgress = Min2(backend, current + 180)]
    ELSE t

\* the last lines of the smoothing callback
advanceReportProgress(t, current, backend, cappedTarget) ==
    IF cappedTarget > current + 10
    THEN [t EXCEPT !.reportGenerationProgress =
             Min2(cappedTarget,
                  current + Min2(140, ((cappedTarget - current) * 22) \div 100 + 20))]
    ELSE IF backend > current + 10
    THEN [t EXCEPT !.reportGenerationProgress = Min2(backend, current + 180)]
    ELSE t

\* one firing of the smoothing interval, elapsedMs being now - phase start
reportSmoothTick(t, elapsedMs) ==
    IF ~isReportGenerationProcessing(t) THEN t
    ELSE advanceReportProgress(t,
             Clamp100(t.reportGenerationProgress),
             Clamp100(t.reportGenerationRawProgress),
             Min2(reportHardCeiling(t.reportGenerationServerState),
                  Max3(Clamp100(t.reportGenerationRawProgress),
                       Clamp100(t.reportGenerationProgress),
                       reportPhasePart(
                           getReportGenerationPhaseTargetProgress(
                               t, t.reportGenerationServerState),
                           IF t.reportGenerationPhaseStartedAt THEN elapsedMs ELSE 0,
                           getReportGenerationExpectedDuration(
                               t.reportGenerationServerState)))))

\* generateReport: startReportGenerationPolling(this.generatingReportSessionId)
pollGeneratingReport(t) == startReportGenerationPolling(t, t.generatingReportSessionId)

\* generateReport up to its await
generateReportStart(t) ==
    IF t.currentSession = "" \/ isGeneratingCurrentReport(t) THEN t
    ELSE pollGeneratingReport(
             Await(startReportGenerationFeedback(
                       [t EXCEPT !.generatingReport = TRUE,
                                 !.generatingReportSessionId = t.currentSession]),
                   Call("generateReport", "post", "", 0)))

\* the finally block of generateReport
generateReportFinally(t) ==
    stopReportGenerationPolling([t EXCEPT !.generatingReport = FALSE,
                                          !.generatingReportSessionId = ""])

\* the catch block of generateReport, followed by finally
generateReportCatch(t) ==
    generateReportFinally(finishReportGenerationFeedback(t, "error", "failed"))

\* generateReport after finishReportGenerationFeedback('success');
\* this.currentSession.status = ... throws when the session was closed meanwhile
generateReportSucceeded(t1, reportName) ==
    IF t1.currentSession = "" THEN generateReportCatch(t1)
    ELSE Await(t1, Call("generateReport", "loadReports", reportName, 0))

\* generateReport after the POST answered success, up to await loadReports()
generateReportResponse(t, reportName) ==
    generateReportSucceeded(finishReportGenerationFeedback(t, "success", ""), reportName)

\* ------------------------------------------------------------------ backend answers

Node(title, status, elapsedMs) == [title |-> title, status |-> status, elapsedMs |-> elapsedMs]

Answer(pdf_url, processing, execution_id, outputs, workflow) ==
    [pdf_url |-> pdf_url, processing |-> processing, execution_id |-> execution_id,
     outputs |-> outputs, workflow |-> workflow]

\* node lists of a status answer: two stages under way, a failed node without
\* a title, every stage finished
OutputsUnderWay ==
    << Node({"markdown"}, "finish", 120000), Node({"slide"}, "executing", 150000) >>

OutputsFailed == << Node({}, "failed", 0) >>

OutputsFinished ==
    << Node({"outline"}, "finish", 100000), Node({"presentation"}, "finish", 300000),
       Node({"infographic"}, "finish", 200000), Node({"pdf"}, "finish", 90000) >>

\* answers of GET /refly/status (pollOnce does not read execution_id)
PollResults ==
    { Answer("", TRUE, "", << >>, "executing"),
      Answer("", TRUE, "", OutputsUnderWay, "executing"),
      Answer("", TRUE, "", OutputsFinished, "finish"),
      Answer("", TRUE, "", OutputsFailed, "failed"),
      Answer("", FALSE, "", OutputsFinished, "finish"),
      Answer("pdfUrl", FALSE, "", OutputsFinished, "finish") }

\* answers of POST /refly and of GET /presentation/status
Results ==
    { Answer("", FALSE, "", << >>, "") }
    \cup { Answer("", TRUE, e, << >>, "") : e \in ExecIds \cup {""} }
    \cup { Answer("", TRUE, e, OutputsUnderWay, "executing") : e \in ExecIds }
    \cup { Answer("pdfUrl", FALSE, "", << >>, "") }

\* now - phase start at a smoothing tick, in ms
ElapsedChoices == {0, 400000}

ReportStatus(state, progress, stage_index, active, updated_at, message) ==
    [state |-> state, progress |-> progress, stage_index |-> stage_index,
     active |-> active, updated_at |-> updated_at, message |-> message]

\* answers of GET /status/report-generation
ReportStatuses ==
    { ReportStatus("", 0, -1, TRUE, 0, FALSE),
      ReportStatus("queued", 0, 0, TRUE, DateNow, FALSE),
      ReportStatus("generating", 40, 3, TRUE, DateNow, TRUE),
      ReportStatus("saving", 100, 5, TRUE, DateNow, FALSE),
      ReportStatus("completed", 100, 5, FALSE, DateNow, FALSE),
      ReportStatus("failed", 40, 3, FALSE, DateNow, TRUE),
      ReportStatus("completed", 100, 5, FALSE, DateNow - 501, FALSE) }

\* ------------------------------------------------------------------ actions

\* a user command: every click counts, also one the handler ignores
Click == /\ userActions < MaxUserActions
         /\ userActions' = userActions + 1
         /\ UNCHANGED ticks

Quiet == UNCHANGED << userActions, ticks >>

\* a handler may start a polling session only while closures are left
Within(t) == t.nextPoller <= MaxPollers + 1

\* t is evaluated once
Step(t) == \E u \in {t} : Within(u) /\ Commit(u)

\* viewReport is called by the user and by generateReport: a continuation of
\* viewReport carries its caller in fn, and returns into the caller's finally
InViewReport(c, pc) == c.fn \in {"viewReport", "generateReport"} /\ c.pc = pc

ReturnFromViewReport(t, c) ==
    IF c.fn = "generateReport" THEN generateReportFinally(t) ELSE t

\* viewReport(filename) up to the await of the report content
viewReport(t, caller, filename) ==
    Await(stopPresentationPolling(t), Call(caller, "load", filename, 0))

ViewReport(filename) ==
    /\ Click
    /\ Step(viewReport(This, "viewReport", filename))

\* viewReport: the content arrived; fetchPresentationStatus runs up to its await
ViewReportLoaded(c) ==
    /\ Pending(c) /\ InViewReport(c, "load")
    /\ Quiet
    /\ Step(Await([Resume(This, c) EXCEPT !.selectedReport = c.name],
                  Call(c.fn, "status", c.name, 0)))

ViewReportFailed(c) ==
    /\ Pending(c) /\ InViewReport(c, "load")
    /\ Quiet
    /\ Step(ReturnFromViewReport(Resume(This, c), c))

FetchPresentationStatusResponse(c, status) ==
    /\ Pending(c) /\ InViewReport(c, "status")
    /\ Quiet
    /\ Step(ReturnFromViewReport(fetchPresentationStatusResponse(Resume(This, c), status), c))

FetchPresentationStatusFailed(c) ==
    /\ Pending(c) /\ InViewReport(c, "status")
    /\ Quiet
    /\ Step(ReturnFromViewReport(fetchPresentationStatusCatch(Resume(This, c)), c))

GeneratePresentation ==
    /\ Click
    /\ Step(generatePresentationStart(This))

GeneratePresentationResponse(result) ==
    /\ Pending(Call("generatePresentation", "refly", "", 0))
    /\ Quiet
    /\ Step(generatePresentationResponse(
                Resume(This, Call("generatePresentation", "refly", "", 0)), result))

GeneratePresentationFailed ==
    /\ Pending(Call("generatePresentation", "refly", "", 0))
    /\ Quiet
    /\ Step(generatePresentationCatch(
                Resume(This, Call("generatePresentation", "refly", "", 0))))

\* the poll interval of session c fires; limit bounds the requests of a session
PollTimer(c, limit) ==
    /\ c \in timers.presentationPoll
    /\ pollers[c].attempts < limit
    /\ Quiet
    /\ Step(pollOnce(This, c))

PollResponse(c, result) ==
    /\ Pending(Call("pollOnce", "status", "", c))
    /\ Quiet
    /\ Step(pollOnceResponse(Resume(This, Call("pollOnce", "status", "", c)), c, result))

\* a catch block of pollOnce that reports the failed request as a failed job
pollOnceCatchFails(t, c) ==
    [t EXCEPT !.presentationState = "failed"]

\* the catch block of pollOnce: the error is ignored
pollOnceCatch(t, c) ==
    t

\* the status request failed
PollFailed(c) ==
    /\ Pending(Call("pollOnce", "status", "", c))
    /\ Quiet
    /\ Step(pollOnceCatch(Resume(This, Call("pollOnce", "status", "", c)), c))

\* stopPresentationGeneration, confirmed by the user, up to the await of the abort
StopPresentationGeneration ==
    /\ Click
    /\ Step(IF presentationPollingReportName = "" /\ selectedReport = "" THEN This
            ELSE Await(This, Call("stopPresentationGeneration", "abort", "", 0)))

AbortResponse ==
    /\ Pending(Call("stopPresentationGeneration", "abort", "", 0))
    /\ Quiet
    /\ Step(stopPresentationGenerationResponse(
                Resume(This, Call("stopPresentationGeneration", "abort", "", 0))))

AbortFailed ==
    /\ Pending(Call("stopPresentationGeneration", "abort", "", 0))
    /\ Quiet
    /\ Step(Resume(This, Call("stopPresentationGeneration", "abort", "", 0)))

\* switchView: leaving for the session list also resets the report feedback
leaveReportDetail(t, view) ==
    IF view = "sessions" THEN resetReportGenerationFeedback(t) ELSE t

switchView(t, view) ==
    leaveReportDetail(
        resetPresentationProgressFeedback(
            stopPresentationPolling([t EXCEPT !.selectedReport = "",
                                              !.presentationPdfUrl = ""])),
        view)

SwitchView(view) ==
    /\ Click
    /\ Step(switchView(This, view))

PresentationSmoothTimer(elapsedMs) ==
    /\ timers.presentationSmooth > 0
    /\ ticks < MaxTicks
    /\ ticks' = ticks + 1
    /\ UNCHANGED userActions
    /\ Step(presentationSmoothTick(This, elapsedMs))

\* ------------------------------------------------------------------ report generation: actions

\* openSession(sessionId) up to its await
OpenSession(sessionId) ==
    /\ Click
    /\ Step(Await(This, Call("openSession", "load", sessionId, 0)))

OpenSessionLoaded(c) ==
    /\ Pending(c) /\ c.fn = "openSession"
    /\ Quiet
    /\ Step(resetReportGenerationFeedback([Resume(This, c) EXCEPT !.currentSession = c.name]))

OpenSessionFailed(c) ==
    /\ Pending(c) /\ c.fn = "openSession"
    /\ Quiet
    /\ Step(Resume(This, c))

ExitInterview ==
    /\ Click
    /\ Step([resetReportGenerationFeedback(This) EXCEPT !.currentSession = ""])

GenerateReport ==
    /\ Click
    /\ Step(generateReportStart(This))

\* the POST answered { success: true, report_name }
GenerateReportResponse(reportName) ==
    /\ Pending(Call("generateReport", "post", "", 0))
    /\ Quiet
    /\ Step(generateReportResponse(Resume(This, Call("generateReport", "post", "", 0)),
                                   reportName))

\* the POST failed, or answered without success
GenerateReportFailed ==
    /\ Pending(Call("generateReport", "post", "", 0))
    /\ Quiet
    /\ Step(generateReportCatch(Resume(This, Call("generateReport", "post", "", 0))))

\* loadReports() returned (it swallows its own errors); viewReport starts
GenerateReportReportsLoaded(c) ==
    /\ Pending(c) /\ c.fn = "generateReport" /\ c.pc = "loadReports"
    /\ Quiet
    /\ Step(viewReport(Resume(This, c), "generateReport", c.name))

\* the report status interval fires and sends its request
ReportPollTimer ==
    /\ timers.reportPoll > 0
    /\ CopiesIn(Call("reportPoll", "fetch", "", 0), calls) < MaxReportPolls
    /\ Quiet
    /\ Step(Await(This, Call("reportPoll", "fetch", "", 0)))

ReportPollResponse(data) ==
    /\ Pending(Call("reportPoll", "fetch", "", 0))
    /\ Quiet
    /\ Step(reportPollResponse(Resume(This, Call("reportPoll", "fetch", "", 0)), data))

\* the catch block of the report poll callback, and its early returns on a
\* response that is not ok or has no body: nothing is assigned
reportPollCatch(t) ==
    t

\* the request failed, or answered not-ok or without a body
ReportPollFailed ==
    /\ Pending(Call("reportPoll", "fetch", "", 0))
    /\ Quiet
    /\ Step(reportPollCatch(Resume(This, Call("reportPoll", "fetch", "", 0))))

ReportTransitionTimer ==
    /\ timers.reportTransition > 0
    /\ Quiet
    /\ Step(reportGenerationTransition([This EXCEPT !.timers.reportTransition = @ - 1]))

ReportResetTimer ==
    /\ timers.reportReset > 0
    /\ Quiet
    /\ Step(resetReportGenerationFeedback([This EXCEPT !.timers.reportReset = @ - 1]))

ReportSmoothTimer(elapsedMs) ==
    /\ timers.reportSmooth > 0
    /\ ticks < MaxTicks
    /\ ticks' = ticks + 1
    /\ UNCHANGED userActions
    /\ Step(reportSmoothTick(This, elapsedMs))

\* ------------------------------------------------------------------ specifications

PendingCalls == BagToSet(calls)

PresentationNext ==
    \/ \E filename \in Reports : ViewReport(filename)
    \/ \E c \in PendingCalls : ViewReportLoaded(c)
    \/ \E c \in PendingCalls : ViewReportFailed(c)
    \/ \E c \in PendingCalls : \E status \in Results : FetchPresentationStatusResponse(c, status)
    \/ \E c \in PendingCalls : FetchPresentationStatusFailed(c)
    \/ GeneratePresentation
    \/ \E result \in Results : GeneratePresentationResponse(result)
    \/ GeneratePresentationFailed
    \/ \E c \in 1 .. MaxPollers : PollTimer(c, MaxPolls)
    \/ \E c \in 1 .. MaxPollers : \E result \in PollResults : PollResponse(c, result)
    \/ \E c \in 1 .. MaxPollers : PollFailed(c)
    \/ StopPresentationGeneration
    \/ AbortResponse
    \/ AbortFailed
    \/ SwitchView("reports")
    \/ \E elapsedMs \in ElapsedChoices : PresentationSmoothTimer(elapsedMs)

ReportNext ==
    \/ SwitchView("sessions")
    \/ \E c \in PendingCalls : ViewReportLoaded(c)
    \/ \E c \in PendingCalls : ViewReportFailed(c)
    \/ \E c \in PendingCalls : \E status \in Results : FetchPresentationStatusResponse(c, status)
    \/ \E c \in PendingCalls : FetchPresentationStatusFailed(c)
    \/ \E sessionId \in Sessions : OpenSession(sessionId)
    \/ \E c \in PendingCalls : OpenSessionLoaded(c)
    \/ \E c \in PendingCalls : OpenSessionFailed(c)
    \/ ExitInterview
    \/ GenerateReport
    \/ \E reportName \in Reports : GenerateReportResponse(reportName)
    \/ GenerateReportFailed
    \/ \E c \in PendingCalls : GenerateReportReportsLoaded(c)
    \/ ReportPollTimer
    \/ \E data \in ReportStatuses : ReportPollResponse(data)
    \/ ReportPollFailed
    \/ ReportTransitionTimer
    \/ ReportResetTimer
    \/ \E elapsedMs \in ElapsedChoices : ReportSmoothTimer(elapsedMs)

Next == PresentationNext \/ ReportNext

\* the whole component
Spec == Init /\ [][Next]_vars

\* the presentation flow alone. What the report flow does to the presentation
\* fields (generateReport ends in viewReport, switchView('sessions')) it does
\* through the methods ViewReport and SwitchView run here.
SpecPresentation == Init /\ [][PresentationNext]_vars

\* the report-generation flow alone, with the viewReport it ends in
SpecReport == Init /\ [][ReportNext]_vars

\* Both flows together, under a joint budget of user actions and smoothing
\* ticks: continuations and the other timers run as in Next, and one session
\* is opened.
Fits == userActions + ticks < MaxJobSteps

JobsNext ==
    \/ Fits /\ \E filename \in Reports : ViewReport(filename)
    \/ \E c \in PendingCalls : ViewReportLoaded(c)
    \/ \E c \in PendingCalls : ViewReportFailed(c)
    \/ \E c \in PendingCalls : \E status \in Results : FetchPresentationStatusResponse(c, status)
    \/ \E c \in PendingCalls : FetchPresentationStatusFailed(c)
    \/ Fits /\ GeneratePresentation
    \/ \E result \in Results : GeneratePresentationResponse(result)
    \/ GeneratePresentationFailed
    \/ \E c \in 1 .. MaxPollers : PollTimer(c, MaxPolls)
    \/ \E c \in 1 .. MaxPollers : \E result \in PollResults : PollResponse(c, result)
    \/ \E c \in 1 .. MaxPollers : PollFailed(c)
    \/ Fits /\ StopPresentationGeneration
    \/ AbortResponse
    \/ AbortFailed
    \/ Fits /\ \E view \in {"reports", "sessions"} : SwitchView(view)
    \/ Fits /\ \E elapsedMs \in ElapsedChoices : PresentationSmoothTimer(elapsedMs)
    \/ Fits /\ OpenSession("S1")
    \/ \E c \in PendingCalls : OpenSessionLoaded(c)
    \/ \E c \in PendingCalls : OpenSessionFailed(c)
    \/ Fits /\ ExitInterview
    \/ Fits /\ GenerateReport
    \/ \E reportName \in Reports : GenerateReportResponse(reportName)
    \/ GenerateReportFailed
    \/ \E c \in PendingCalls : GenerateReportReportsLoaded(c)
    \/ ReportPollTimer
    \/ \E data \in ReportStatuses : ReportPollResponse(data)
    \/ ReportPollFailed
    \/ ReportTransitionTimer
    \/ ReportResetTimer
    \/ Fits /\ \E elapsedMs \in ElapsedChoices : ReportSmoothTimer(elapsedMs)

SpecJobs == Init /\ [][JobsNext]_vars

\* One polling session left alone by the user, followed beyond its attempt
\* budget. It starts in the state the recovery query leaves when it reports
\* an execution in flight: Init, ViewReport, ViewReportLoaded,
\* FetchPresentationStatusResponse.
PollingFromRecovery ==
    fetchPresentationStatusResponse(
        [InitThis EXCEPT !.selectedReport = CHOOSE r \in Reports : TRUE],
        Answer("", TRUE, "E1", << >>, ""))

InitBudget ==
    /\ Is(PollingFromRecovery)
    /\ userActions = 1
    /\ ticks = 0

BudgetNext ==
    \/ /\ CopiesIn(Call("pollOnce", "status", "", 1), calls) < MaxPendingPolls
       /\ PollTimer(1, maxAttempts + MaxExtraPolls)
    \/ \E result \in PollResults : PollResponse(1, result)
    \/ PollFailed(1)
    \/ \E elapsedMs \in ElapsedChoices : PresentationSmoothTimer(elapsedMs)

SpecBudget == InitBudget /\ [][BudgetNext]_vars

\* ---- snapshots: one job under way, fed with status answers of every shape

\* answers of GET /refly/status beyond PollResults: the last stage running
\* after three finished ones, and answers with pdf_url beside failed or
\* running nodes
SnapshotResults ==
    PollResults
    \cup { Answer("", TRUE, "",
                  << Node({"outline"}, "finish", 100000), Node({"presentation"}, "finish", 300000),
                     Node({"infographic"}, "finish", 200000), Node({"pdf"}, "executing", 78000) >>,
                  "executing"),
           Answer("pdfUrl", TRUE, "", OutputsFailed, "failed"),
           Answer("pdfUrl", FALSE, "", OutputsUnderWay, "executing") }

\* answers of GET /status/report-generation beyond ReportStatuses: progress
\* values next to and above the ceilings of the smoothing tick
SnapshotStatuses ==
    ReportStatuses
    \cup { ReportStatus("generating", 93, 3, TRUE, DateNow, FALSE),
           ReportStatus("generating", 95, 3, TRUE, DateNow, FALSE),
           ReportStatus("fallback", 95, 4, TRUE, DateNow, FALSE),
           ReportStatus("saving", 98, 5, TRUE, DateNow, FALSE) }

\* either the presentation poller runs after a recovery, or a report was
\* requested for the open session
InitSnapshots ==
    /\ \/ Is(PollingFromRecovery)
       \/ Is(generateReportStart([InitThis EXCEPT !.currentSession = "S1"]))
    /\ userActions = 1
    /\ ticks = 0

SnapshotsNext ==
    \/ /\ CopiesIn(Call("pollOnce", "status", "", 1), calls) < MaxPendingPolls
       /\ PollTimer(1, MaxPolls)
    \/ \E result \in SnapshotResults : PollResponse(1, result)
    \/ \E elapsedMs \in ElapsedChoices : PresentationSmoothTimer(elapsedMs)
    \/ ReportPollTimer
    \/ \E data \in SnapshotStatuses : ReportPollResponse(data)
    \/ ReportTransitionTimer
    \/ \E elapsedMs \in ElapsedChoices : ReportSmoothTimer(elapsedMs)

SpecSnapshots == InitSnapshots /\ [][SnapshotsNext]_vars

\* ---- two reports: the user moves between reports while queries are pending

\* the execution the backend runs for a report, as its status query reports it
ExecOf(reportName) == IF reportName = "reportA" THEN "E1" ELSE "E2"

TwoReportsNext ==
    \/ \E filename \in {"reportA", "reportB"} : ViewReport(filename)
    \/ \E c \in PendingCalls : ViewReportLoaded(c)
    \/ \E c \in PendingCalls :
          FetchPresentationStatusResponse(c, Answer("", TRUE, ExecOf(c.name), << >>, ""))
    \/ \E c \in 1 .. MaxPollers : PollTimer(c, MaxPolls)
    \/ \E c \in 1 .. MaxPollers : \E result \in PollResults : PollResponse(c, result)

SpecTwoReports == Init /\ [][TwoReportsNext]_vars

\* ---- two sessions: a report was requested for session S1, and its request
\* is pending while the user opens another session

InitTwoSessions ==
    /\ Is(generateReportStart([InitThis EXCEPT !.currentSession = "S1"]))
    /\ userActions = 1
    /\ ticks = 0

TwoSessionsNext ==
    \/ \E sessionId \in Sessions : OpenSession(sessionId)
    \/ \E c \in PendingCalls : OpenSessionLoaded(c)
    \/ GenerateReport
    \/ \E reportName \in Reports : GenerateReportResponse(reportName)
    \/ GenerateReportFailed
    \/ \E c \in PendingCalls : GenerateReportReportsLoaded(c)
    \/ \E c \in PendingCalls : ViewReportLoaded(c)
    \/ \E c \in PendingCalls : FetchPresentationStatusFailed(c)
    \/ ReportPollTimer
    \/ \E data \in ReportStatuses : ReportPollResponse(data)
    \/ ReportTransitionTimer
    \/ ReportResetTimer

SpecTwoSessions == InitTwoSessions /\ [][TwoSessionsNext]_vars

\* ------------------------------------------------------------------ lifecycle

\* submitting or running, as the smoothing tick tests it: a request or the
\* poller is active and the state is not a terminal one
PresentationProcessing ==
    /\ generatingSlides \/ presentationPolling
    /\ presentationState \notin {"completed", "failed", "stopped"}

ReportProcessing == reportGenerationState \in {"submitting", "running"}

\* the published presentation progress state
PresentationProgressState ==
    << presentationState, presentationProgress, presentationRawProgress,
       presentationStageIndex, presentationStageStatus, presentationPdfUrl >>

\* session c is the live pair of the poller
LivePair(c) ==
    /\ presentationPolling
    /\ presentationExecutionId = pollers[c].executionId
    /\ presentationPollingReportName = pollers[c].reportName

PollCall(c) == Call("pollOnce", "status", "", c)

\* ------------------------------------------------------------------ claims

\* the steps C1 is about: a smoothing tick, a poll response, the submission
\* response with the submitting -> running hand-over, the transition timer
ProgressStep ==
    \/ \E elapsedMs \in ElapsedChoices : PresentationSmoothTimer(elapsedMs)
    \/ \E c \in 1 .. MaxPollers : \E result \in PollResults : PollResponse(c, result)
    \/ \E result \in Results : GeneratePresentationResponse(result)
    \/ \E elapsedMs \in ElapsedChoices : ReportSmoothTimer(elapsedMs)
    \/ \E data \in ReportStatuses : ReportPollResponse(data)
    \/ \E reportName \in Reports : GenerateReportResponse(reportName)
    \/ ReportTransitionTimer

\* C1: under any interleaving of smoothing ticks, poll responses, the
\* submission response and the submitting -> running hand-over, the displayed
\* progress of either job kind does not decrease from one state to the next
\* while the lifecycle is submitting or running before and after the step.
C1_ProgressNeverDecreases ==
    [][ ProgressStep =>
          /\ (PresentationProcessing /\ PresentationProcessing'
                => presentationProgress' >= presentationProgress)
          /\ (ReportProcessing /\ ReportProcessing'
                => reportGenerationProgress' >= reportGenerationProgress) ]_vars

\* C2: in every reachable state, a displayed progress of 100 implies the
\* lifecycle is success (report: 'success', presentation: 'completed').
C2_FullOnlyOnSuccess ==
    /\ presentationProgress = Pct(100) => presentationState = "completed"
    /\ reportGenerationProgress = Pct(100) => reportGenerationState = "success"

\* C3: in every reachable state, a lifecycle of success implies a displayed
\* progress of 100.
C3_SuccessIsFull ==
    /\ presentationState = "completed" => presentationProgress = Pct(100)
    /\ reportGenerationState = "success" => reportGenerationProgress = Pct(100)

\* C4: a presentation poll response that arrives while polling is off or
\* while the pair (reportName, executionId) it was issued for is not the
\* live pair leaves state, progress, raw progress, stage index, stage status
\* and pdf url unchanged.
C4_StaleResponseDiscarded ==
    [][ \A c \in 1 .. MaxPollers : \A result \in PollResults :
            ~LivePair(c) /\ Pending(PollCall(c)) /\ PollResponse(c, result)
                => UNCHANGED PresentationProgressState ]_vars

\* C4 witness: a response of a superseded execution id was dropped while the
\* poller follows another execution id.
C4_Witness ==
    \E c \in 1 .. MaxPollers :
        /\ pollers[c].dropped
        /\ presentationPolling
        /\ pollers[c].executionId # ""
        /\ presentationExecutionId # pollers[c].executionId
        /\ presentationPollingReportName = pollers[c].reportName

\* C5: once a cancel has put the lifecycle in stopped, neither a poll
\* response nor the submission response moves it away from stopped or
\* restarts polling.
C5_CancelIsFinal ==
    [][ /\ presentationState = "stopped"
        /\ \/ \E result \in Results : GeneratePresentationResponse(result)
           \/ \E c \in 1 .. MaxPollers : \E result \in PollResults : PollResponse(c, result)
        => presentationState' = "stopped" /\ ~presentationPolling' ]_vars

\* the local state a cancel leaves: stopped, progress 0, no live execution
\* id, poll timer and smoothing timer cleared
CancelledLocally ==
    /\ presentationState = "stopped"
    /\ presentationProgress = 0
    /\ presentationRawProgress = 0
    /\ presentationExecutionId = ""
    /\ ~presentationPolling
    /\ ~generatingSlides
    /\ presentationPollInterval = 0
    /\ ~presentationSmoothTimer
    /\ timers.presentationPoll = {}
    /\ timers.presentationSmooth = 0

\* C6: once the abort request of a cancel is answered, with success or with
\* failure, the poll timer and the smoothing timer are stopped and the local
\* state is reset (stopped, progress 0, no live execution id).
C6_CancelResetsRegardless ==
    [][ AbortResponse \/ AbortFailed => CancelledLocally' ]_vars

\* C7: right after a poll response for the live pair that carries a pdf_url
\* is handled, the lifecycle is success, the pdf url is stored, the displayed
\* progress is 100 and the poll and smoothing timers are cleared.
C7_TerminalResponse ==
    [][ \A c \in 1 .. MaxPollers : \A result \in PollResults :
            LivePair(c) /\ result.pdf_url # "" /\ PollResponse(c, result)
                => /\ presentationState' = "completed"
                   /\ presentationPdfUrl' = result.pdf_url
                   /\ presentationProgress' = Pct(100)
                   /\ presentationPollInterval' = 0
                   /\ ~presentationSmoothTimer'
                   /\ timers'.presentationPoll = {}
                   /\ timers'.presentationSmooth = 0 ]_vars

\* C8: in a polling session whose attempt counter has reached the budget,
\* the "still generating" toast is shown at most once, it is shown by the
\* first response without pdf_url handled for the live pair from then on,
\* and showing it leaves the poller running: polling stays on, the poll
\* timer stays registered, and the state is the one the response's content
\* gives (a running one when the response reports the workflow executing):
\* using up the budget does not by itself end or fail the job.
C8_BudgetNoticeOnce ==
    [][ \A c \in 1 .. MaxPollers :
          /\ pollers'[c].toasts <= 1
          /\ pollers'[c].toasts > pollers[c].toasts
                => /\ pollers[c].attempts >= maxAttempts
                   /\ presentationPolling'
                   /\ presentationPollInterval' = c
                   /\ c \in timers'.presentationPoll
          /\ \A result \in PollResults :
                /\ pollers[c].attempts >= maxAttempts
                /\ LivePair(c)
                /\ result.pdf_url = ""
                /\ PollResponse(c, result)
                => /\ pollers'[c].toasts = 1
                   /\ presentationPolling'
                   /\ presentationState' =
                          updatePresentationProgressFromResult(This, result).presentationState
                   /\ result.workflow = "executing"
                         => presentationState' \notin {"failed", "completed", "stopped", "idle"} ]_vars

\* C8 witness: the toast was shown once and the session went on polling
\* beyond the budget.
C8_Witness ==
    \E c \in 1 .. MaxPollers :
        /\ pollers[c].toasts = 1
        /\ pollers[c].attempts > maxAttempts
        /\ presentationPolling
        /\ ~Pending(PollCall(c))

\* C9: a polling session issues at most maxAttempts status requests: once the
\* budget is used up the poll timer is cleared.
C9_PollingStopsAtBudget ==
    \A c \in 1 .. MaxPollers :
        /\ pollers[c].attempts <= maxAttempts
        /\ pollers[c].attempts = maxAttempts /\ ~Pending(PollCall(c))
              => c \notin timers.presentationPoll

\* C10: generatePresentation while the presentation job is submitting or
\* running, and generateReport while the report of the current session is
\* being generated or its lifecycle is submitting or running, change nothing
\* and send no request.
C10_StartJobReentrant ==
    [][ /\ GeneratePresentation /\ PresentationProcessing => This' = This
        /\ GenerateReport /\ (isGeneratingCurrentReport(This) \/ ReportProcessing)
              => This' = This ]_vars

\* C11: at every point there is at most one live smoothing interval and at
\* most one live poll interval per job kind.
C11_OneTimerPerKind ==
    /\ timers.presentationSmooth <= 1
    /\ Cardinality(timers.presentationPoll) <= 1
    /\ timers.reportSmooth <= 1
    /\ timers.reportPoll <= 1

\* C11 witness: a second polling session was started while the first one's
\* timers were live, and one poll interval and one smoothing interval are left.
C11_Witness ==
    /\ nextPoller = 3
    /\ pollers[1].attempts > 0
    /\ Cardinality(timers.presentationPoll) = 1
    /\ timers.presentationSmooth = 1

\* C12: when the recovery query reports an execution in flight, the engine is
\* running right after the response is handled, with the poll interval and
\* the smoothing interval attached, and the displayed progress is at least
\* the estimator's value for that status.
C12_RecoverySeedsFromEstimate ==
    [][ \A c \in PendingCalls : \A status \in Results :
            /\ status.processing
            /\ status.execution_id # ""
            /\ FetchPresentationStatusResponse(c, status)
            => /\ presentationState' = "executing"
               /\ presentationPolling'
               /\ presentationPollInterval' # 0
               /\ presentationSmoothTimer'
               /\ presentationProgress'
                     >= Pct(estimatePresentationProgressFromRefly(status).progress) ]_vars

\* C13: when the recovery query reports a pdf_url and no execution in flight,
\* the state is 'completed' with progress 100 and the url stored right after
\* the response is handled, and the step starts no polling session, no poll
\* interval and no smoothing interval.
C13_RecoveryTerminal ==
    [][ \A c \in PendingCalls : \A status \in Results :
            /\ status.pdf_url # ""
            /\ ~(status.processing /\ status.execution_id # "")
            /\ FetchPresentationStatusResponse(c, status)
            => /\ presentationState' = "completed"
               /\ presentationProgress' = Pct(100)
               /\ presentationPdfUrl' = status.pdf_url
               /\ nextPoller' = nextPoller
               /\ timers'.presentationPoll \subseteq timers.presentationPoll
               /\ timers'.presentationSmooth <= timers.presentationSmooth
               /\ ~presentationSmoothTimer' ]_vars

\* C13 witness: a report was opened and its recovery query answered with a
\* pdf_url; no polling session was ever started.
C13_Witness ==
    /\ userActions = 1
    /\ calls = EmptyBag
    /\ nextPoller = 1
    /\ presentationPdfUrl # ""
    /\ presentationState = "completed"
    /\ presentationProgress = Pct(100)
    /\ timers.presentationPoll = {}
    /\ timers.presentationSmooth = 0

\* the published progress state of the presentation job
PublishedProgress(t) ==
    << t.presentationState, t.presentationProgress,
       t.presentationStageIndex, t.presentationStageStatus >>

\* C14: handling the recovery answer a second time, with the same status and
\* nothing in between, leaves the published progress state (state, displayed
\* progress, stage index, stage status) as the first handling left it.
C14_RecoveryIdempotent ==
    [][ \A c \in PendingCalls : \A status \in Results :
            FetchPresentationStatusResponse(c, status)
            => PublishedProgress(fetchPresentationStatusResponse(This', status))
                  = PublishedProgress(This') ]_vars

\* C15: a step that moves a job into its error state (report: 'error';
\* presentation: 'failed') leaves the displayed progress at the value it had
\* before the step.
C15_ErrorFreezesProgress ==
    [][ /\ reportGenerationState # "error" /\ reportGenerationState' = "error"
           => reportGenerationProgress' = reportGenerationProgress
        /\ presentationState # "failed" /\ presentationState' = "failed"
           => presentationProgress' = presentationProgress ]_vars

\* the progress state of the presentation job
PresentationFeedback ==
    << presentationState, presentationProgress, presentationRawProgress,
       presentationStageIndex, presentationStageStatus, presentationPhaseStartedAt,
       presentationPolling, presentationExecutionId, presentationPdfUrl >>

\* the progress state of the report job
ReportFeedback ==
    << reportGenerationState, reportGenerationProgress, reportGenerationRawProgress,
       reportGenerationStageIndex, reportGenerationServerState,
       reportGenerationPhaseStartedAt, reportGenerationLastError >>

\* C16: a status poll that fails changes no progress-state variable of either
\* job kind and no timer: the poll interval that sent it is still live
\* afterwards, and the lifecycle is not moved to its error state.
C16_FailedPollIsSilent ==
    [][ /\ \A c \in 1 .. MaxPollers :
              Pending(Call("pollOnce", "status", "", c)) /\ PollFailed(c)
              => /\ UNCHANGED << PresentationFeedback, ReportFeedback, timers >>
                 /\ presentationState' # "failed" \/ presentationState = "failed"
        /\ Pending(Call("reportPoll", "fetch", "", 0)) /\ ReportPollFailed
              => /\ UNCHANGED << PresentationFeedback, ReportFeedback, timers >>
                 /\ reportGenerationState' # "error" \/ reportGenerationState = "error" ]_vars

\* C16 witness: both jobs are under way with their poll intervals live, the
\* presentation poller has sent a request that is no longer pending, and the
\* bar still shows what the submission left.
C16_Witness ==
    /\ presentationState = "executing" /\ presentationPolling
    /\ presentationStageStatus = "pending" /\ presentationRawProgress = Pct(5)
    /\ timers.presentationPoll = {1} /\ pollers[1].attempts > 0
    /\ ~Pending(Call("pollOnce", "status", "", 1))
    /\ reportGenerationState \in {"submitting", "running"}
    /\ timers.reportPoll = 1

\* C17: a status answer that reports an explicit backend failure (report state
\* 'failed'; presentation workflow 'failed'), handled while the job is under
\* way, moves the lifecycle to its error state and leaves neither the poll
\* interval nor the smoothing interval of that job live.
C17_BackendFailureIsError ==
    [][ /\ \A data \in ReportStatuses :
              /\ data.state = "failed"
              /\ reportGenerationState \in {"submitting", "running"}
              /\ Pending(Call("reportPoll", "fetch", "", 0))
              /\ ReportPollResponse(data)
              => /\ reportGenerationState' = "error"
                 /\ timers'.reportPoll = 0
                 /\ timers'.reportSmooth = 0
        /\ \A c \in 1 .. MaxPollers : \A result \in PollResults :
              /\ result.workflow = "failed"
              /\ LivePair(c)
              /\ Pending(PollCall(c))
              /\ PollResponse(c, result)
              => /\ presentationState' = "failed"
                 /\ timers'.presentationPoll = {}
                 /\ timers'.presentationSmooth = 0 ]_vars

\* nothing is left that could act without the user: no request is pending and
\* no timer is live
NothingScheduled ==
    /\ calls = EmptyBag
    /\ timers.presentationSmooth = 0 /\ timers.presentationPoll = {}
    /\ timers.reportSmooth = 0 /\ timers.reportPoll = 0
    /\ timers.reportTransition = 0 /\ timers.reportReset = 0

\* C18: a terminal lifecycle state of either job kind is followed by idle
\* without a further user action, so whenever no request is pending and no
\* timer is live, neither job is left in a terminal state.
C18_TerminalStatesReset ==
    NothingScheduled
    => /\ reportGenerationState \notin {"success", "error"}
       /\ presentationState \notin {"completed", "failed", "stopped"}

\* the order of the lifecycle states: idle, submitting, running, terminal
ReportRank(s) ==
    CASE s = "idle" -> 0
      [] s = "submitting" -> 1
      [] s = "running" -> 2
      [] OTHER -> 3

PresentationRank(s) ==
    CASE s = "idle" -> 0
      [] s = "submitting" -> 1
      [] s \in {"queued", "executing", "running"} -> 2
      [] OTHER -> 3

\* C19: a poll response never moves the lifecycle of either job kind
\* backwards: after it the lifecycle is at least as far along
\* idle < submitting < running < terminal as before.
C19_PollNeverMovesBack ==
    [][ /\ \A data \in ReportStatuses :
              Pending(Call("reportPoll", "fetch", "", 0)) /\ ReportPollResponse(data)
              => ReportRank(reportGenerationState') >= ReportRank(reportGenerationState)
        /\ \A c \in 1 .. MaxPollers : \A result \in PollResults :
              Pending(PollCall(c)) /\ PollResponse(c, result)
              => PresentationRank(presentationState') >= PresentationRank(presentationState)
      ]_vars

\* the submission requests of the two job kinds
ReportSubmission == Call("generateReport", "post", "", 0)

PresentationSubmission == Call("generatePresentation", "refly", "", 0)

\* C20: starting a job from idle, for either job kind, puts the lifecycle in
\* submitting, sets the displayed progress to exactly 5, clears the previous
\* error message and result, leaves one smoothing timer live and sends
\* exactly one submission request.
C20_StartFromIdle ==
    [][ /\ /\ reportGenerationState = "idle" /\ currentSession # "" /\ ~generatingReport
           /\ GenerateReport
           => /\ reportGenerationState' = "submitting"
              /\ reportGenerationProgress' = Pct(5)
              /\ reportGenerationLastError' = ""
              /\ timers'.reportSmooth = 1
              /\ calls' = calls (+) SetToBag({ReportSubmission})
        /\ /\ presentationState = "idle" /\ selectedReport # "" /\ ~generatingSlides
           /\ GeneratePresentation
           => /\ presentationState' = "submitting"
              /\ presentationProgress' = Pct(5)
              /\ presentationPdfUrl' = ""
              /\ timers'.presentationSmooth = 1
              /\ calls' = calls (+) SetToBag({PresentationSubmission}) ]_vars

\* C20 witness: the presentation job was just started from idle: its
\* submission request is pending, the bar shows 5 and smoothing is live.
C20_Witness ==
    /\ presentationState = "submitting" /\ generatingSlides
    /\ presentationProgress = Pct(5)
    /\ CopiesIn(PresentationSubmission, calls) = 1
    /\ timers.presentationSmooth = 1
    /\ presentationPdfUrl = ""

\* C21: while the submission response of a job is outstanding, its lifecycle
\* is not running and no status poll of that job kind has been sent.
C21_RunningOnlyAfterAccepted ==
    /\ Pending(ReportSubmission)
       => /\ reportGenerationState # "running"
          /\ ~Pending(Call("reportPoll", "fetch", "", 0))
    /\ Pending(PresentationSubmission)
       => /\ PresentationRank(presentationState) # 2
          /\ \A c \in 1 .. MaxPollers : ~Pending(PollCall(c))

\* C22: a status snapshot applied for the job under way never lowers the
\* merged backend estimate of that job (presentationRawProgress,
\* reportGenerationRawProgress).
C22_EstimateNeverDecreases ==
    [][ /\ \A c \in 1 .. MaxPollers : \A result \in PollResults :
              LivePair(c) /\ Pending(PollCall(c)) /\ PollResponse(c, result)
              => presentationRawProgress' >= presentationRawProgress
        /\ \A data \in ReportStatuses :
              /\ reportGenerationState \in {"submitting", "running"}
              /\ Pending(Call("reportPoll", "fetch", "", 0))
              /\ ReportPollResponse(data)
              => reportGenerationRawProgress' >= reportGenerationRawProgress ]_vars

\* C23: a smoothing tick executed while the job is submitting or running
\* leaves the displayed progress at or below the ceiling (presentation 99;
\* report 99 in saving, 94 in generating, 96 otherwise), and does not raise
\* a displayed progress that was already above the ceiling.
C23_TickStaysBelowCeiling ==
    [][ /\ \A elapsedMs \in ElapsedChoices :
              /\ PresentationProcessing /\ timers.presentationSmooth > 0
              /\ PresentationSmoothTimer(elapsedMs)
              => IF presentationProgress > Pct(99)
                 THEN presentationProgress' <= presentationProgress
                 ELSE presentationProgress' <= Pct(99)
        /\ \A elapsedMs \in ElapsedChoices :
              /\ ReportProcessing /\ timers.reportSmooth > 0
              /\ ReportSmoothTimer(elapsedMs)
              => IF reportGenerationProgress > reportHardCeiling(reportGenerationServerState)
                 THEN reportGenerationProgress' <= reportGenerationProgress
                 ELSE /\ reportGenerationProgress'
                            <= reportHardCeiling(reportGenerationServerState)
                      /\ reportHardCeiling(reportGenerationServerState) < Pct(100) ]_vars

\* C23 witness: two ticks have moved the bar of a running presentation job
\* beyond the backend estimate of 98, and it is still below 99.
C23_Witness ==
    /\ ticks = MaxTicks /\ PresentationProcessing
    /\ presentationRawProgress = Pct(98)
    /\ presentationProgress > Pct(98) + 40 /\ presentationProgress < Pct(99)

\* C24: a smoothing tick moves the displayed progress d to a value d' with
\* d <= d' <= max(d, min(ceiling, softTarget)), softTarget being the largest
\* of d, the backend estimate and the phase target, and d' - d is at most the
\* largest step of the job kind (presentation 1.4, report 1.8).
C24_TickStepBounded ==
    [][ /\ \A elapsedMs \in ElapsedChoices :
              timers.presentationSmooth > 0 /\ PresentationSmoothTimer(elapsedMs)
              => /\ presentationProgress <= presentationProgress'
                 /\ presentationProgress' <=
                        Max2(presentationProgress,
                             Min2(Pct(99),
                                  Max3(presentationProgress, presentationRawProgress,
                                       presentationPhaseTarget(presentationStageIndex,
                                           IF presentationPhaseStartedAt
                                           THEN elapsedMs ELSE 0))))
                 /\ presentationProgress' - presentationProgress <= 140
        /\ \A elapsedMs \in ElapsedChoices :
              timers.reportSmooth > 0 /\ ReportSmoothTimer(elapsedMs)
              => /\ reportGenerationProgress <= reportGenerationProgress'
                 /\ reportGenerationProgress' <=
                        Max2(reportGenerationProgress,
                             Min2(reportHardCeiling(reportGenerationServerState),
                                  Max3(reportGenerationProgress, reportGenerationRawProgress,
                                       reportPhasePart(
                                           getReportGenerationPhaseTargetProgress(
                                               This, reportGenerationServerState),
                                           IF reportGenerationPhaseStartedAt
                                           THEN elapsedMs ELSE 0,
                                           getReportGenerationExpectedDuration(
                                               reportGenerationServerState)))))
                 /\ reportGenerationProgress' - reportGenerationProgress <= 180 ]_vars

\* C24 witness: a tick has moved the bar of a report job in its generating
\* phase beyond the backend estimate of 40, by no more than two steps.
C24_Witness ==
    /\ ticks > 0 /\ ReportProcessing
    /\ reportGenerationServerState = "generating"
    /\ reportGenerationRawProgress = Pct(40)
    /\ reportGenerationProgress > Pct(40)

\* C25: a smoothing tick that fires while the job is neither submitting nor
\* running leaves every progress-state variable of both jobs unchanged.
C25_TickOutsideJobIsNoOp ==
    [][ /\ \A elapsedMs \in ElapsedChoices :
              /\ ~PresentationProcessing /\ timers.presentationSmooth > 0
              /\ PresentationSmoothTimer(elapsedMs)
              => UNCHANGED << PresentationFeedback, ReportFeedback >>
        /\ \A elapsedMs \in ElapsedChoices :
              /\ ~ReportProcessing /\ timers.reportSmooth > 0
              /\ ReportSmoothTimer(elapsedMs)
              => UNCHANGED << PresentationFeedback, ReportFeedback >> ]_vars

\* C25 witness: the presentation job has failed with its smoothing interval
\* still live, the ticks of the run have fired and the bar shows the
\* estimate of the failed snapshot.
C25_Witness ==
    /\ ticks = MaxTicks /\ presentationState = "failed"
    /\ timers.presentationSmooth > 0
    /\ presentationProgress = presentationRawProgress
    /\ presentationProgress > Pct(5)

\* C26: a status snapshot applied for the job under way never lowers the
\* published phase index (presentationStageIndex, reportGenerationStageIndex).
C26_PhaseIndexNeverDecreases ==
    [][ /\ \A c \in 1 .. MaxPollers : \A result \in PollResults :
              /\ result.pdf_url = ""
              /\ LivePair(c) /\ Pending(PollCall(c)) /\ PollResponse(c, result)
              => presentationStageIndex' >= presentationStageIndex
        /\ \A data \in ReportStatuses :
              /\ ReportProcessing
              /\ Pending(Call("reportPoll", "fetch", "", 0))
              /\ ReportPollResponse(data)
              => reportGenerationStageIndex' >= reportGenerationStageIndex ]_vars

\* C27: whenever a status snapshot is applied, the local progress the
\* estimator gives each of its nodes is 100 when the node is finished,
\* clamp(12, round(elapsed / expected * 100), 92) when it is running,
\* clamp(25, round(elapsed / expected * 100), 96) when it failed and 0 when
\* it is pending, for every stage the node can be matched to.
C27_LocalProgressFormula ==
    [][ \A result \in SnapshotResults :
            Pending(PollCall(1)) /\ PollResponse(1, result)
            => \A k \in 1 .. Len(result.outputs) : \A i \in StageIdx :
                  NodeStageProgress(normalizeReflyStageStatus(result.outputs[k].status),
                                    result.outputs[k].elapsedMs, Profile(i).expectedMs)
                  = CASE normalizeReflyStageStatus(result.outputs[k].status) = "finished"
                           -> 100
                      [] normalizeReflyStageStatus(result.outputs[k].status) = "running"
                           -> Min2(92, Max2(12, Round(result.outputs[k].elapsedMs * 100,
                                                      Profile(i).expectedMs)))
                      [] normalizeReflyStageStatus(result.outputs[k].status) = "failed"
                           -> Min2(96, Max2(25, Round(result.outputs[k].elapsedMs * 100,
                                                      Profile(i).expectedMs)))
                      [] OTHER -> 0 ]_vars

\* C28: for every applied status snapshot that carries pdf_url, whatever
\* nodes it also carries, the estimator returns progress 100, the last stage
\* as stage index and 'finished' as stage status.
C28_ArtifactForcesFullEstimate ==
    [][ \A result \in SnapshotResults :
            result.pdf_url # "" /\ Pending(PollCall(1)) /\ PollResponse(1, result)
            => /\ estimatePresentationProgressFromRefly(result).progress = 100
               /\ estimatePresentationProgressFromRefly(result).stageIndex = TotalStages - 1
               /\ estimatePresentationProgressFromRefly(result).stageStatus = "finished" ]_vars

\* C28 witness: a snapshot with pdf_url was applied by the poller: the url is
\* stored, the job is completed and the poller has stopped.
C28_Witness ==
    /\ presentationPdfUrl # "" /\ presentationState = "completed"
    /\ pollers[1].attempts > 0 /\ ~presentationPolling
    /\ timers.presentationPoll = {}

\* C29: the presentation profile has 4 phases whose weights sum to 100; the
\* report job has 6 phases (queued, building_prompt, generating, fallback,
\* saving, completed) whose shares, the increases of the cumulative phase
\* target, are positive and sum to 100.
C29_WeightsSumTo100 ==
    /\ TotalStages = 4
    /\ Profile(0).weight + Profile(1).weight + Profile(2).weight + Profile(3).weight = 100
    /\ 0 < getReportGenerationPhaseTargetProgress(This, "queued")
    /\ getReportGenerationPhaseTargetProgress(This, "queued")
          < getReportGenerationPhaseTargetProgress(This, "building_prompt")
    /\ getReportGenerationPhaseTargetProgress(This, "building_prompt")
          < getReportGenerationPhaseTargetProgress(This, "generating")
    /\ getReportGenerationPhaseTargetProgress(This, "generating")
          < getReportGenerationPhaseTargetProgress(This, "fallback")
    /\ getReportGenerationPhaseTargetProgress(This, "fallback")
          < getReportGenerationPhaseTargetProgress(This, "saving")
    /\ getReportGenerationPhaseTargetProgress(This, "saving")
          < getReportGenerationPhaseTargetProgress(This, "completed")
    /\ getReportGenerationPhaseTargetProgress(This, "completed") = Pct(100)

\* C29 witness: a snapshot with every stage finished was weighed while the
\* job was still processing: the estimate is the full weight capped at 99.
C29_Witness ==
    /\ presentationPolling /\ presentationStageStatus = "finished"
    /\ presentationStageIndex = TotalStages - 1
    /\ presentationRawProgress = Pct(99)

\* C30: when the answer to the submission carries pdf_url and reports no
\* execution in progress, the presentation job goes from submitting to
\* completed with displayed progress 100, no smoothing interval is left
\* live and no polling session is started.
C30_ImmediateArtifact ==
    [][ \A result \in Results :
            /\ result.pdf_url # "" /\ ~result.processing
            /\ presentationState = "submitting"
            /\ Pending(PresentationSubmission)
            /\ GeneratePresentationResponse(result)
            => /\ presentationState' = "completed"
               /\ presentationProgress' = Pct(100)
               /\ presentationPdfUrl' = result.pdf_url
               /\ timers'.presentationSmooth = 0 /\ ~presentationSmoothTimer'
               /\ ~presentationPolling' /\ nextPoller' = nextPoller
               /\ timers'.presentationPoll \subseteq timers.presentationPoll ]_vars

\* C30 witness: the submission was answered with pdf_url at once: the job is
\* completed at 100 and no polling session was ever created.
C30_Witness ==
    /\ presentationState = "completed" /\ presentationProgress = Pct(100)
    /\ presentationPdfUrl # "" /\ ~generatingSlides
    /\ nextPoller = 1 /\ userActions = 2
    /\ timers.presentationSmooth = 0 /\ timers.presentationPoll = {}

\* C31: once the report job is in a terminal state (success or error), no
\* answer to a report status poll changes reportGenerationState, the
\* progress or the server state.
C31_TerminalReportIgnoresPolls ==
    [][ \A data \in ReportStatuses :
            /\ reportGenerationState \in {"success", "error"}
            /\ Pending(Call("reportPoll", "fetch", "", 0))
            /\ ReportPollResponse(data)
            => UNCHANGED << reportGenerationState, reportGenerationProgress,
                            reportGenerationRawProgress, reportGenerationServerState >> ]_vars

\* C32: whenever the poller applies a snapshot that reports processing and no
\* pdf_url, the estimate of that snapshot, and of every snapshot reporting
\* processing without pdf_url that carries up to two nodes, named or not, of
\* any status under any workflow status, is at least 5 and at most 99.
C32_EstimateWithinFloorAndCeiling ==
    [][ \A result \in SnapshotResults :
            /\ result.processing /\ result.pdf_url = ""
            /\ Pending(PollCall(1)) /\ PollResponse(1, result)
            => /\ estimatePresentationProgressFromRefly(result).progress >= 5
               /\ estimatePresentationProgressFromRefly(result).progress <= 99
               /\ \A outputs \in UNION { [1 .. n -> { Node(title, status, elapsedMs) :
                                                        title \in {{}, {"pdf"}},
                                                        status \in StatusTexts,
                                                        elapsedMs \in {100000} }]
                                          : n \in 0 .. 2 } :
                     \A workflow \in StatusTexts :
                        /\ estimatePresentationProgressFromRefly(
                               Answer("", TRUE, "", outputs, workflow)).progress >= 5
                        /\ estimatePresentationProgressFromRefly(
                               Answer("", TRUE, "", outputs, workflow)).progress <= 99 ]_vars

\* C32 witness: the poller applied a snapshot without nodes while the job
\* was processing: the estimate is the floor, 5.
C32_Witness ==
    /\ presentationPolling /\ pollers[1].attempts > 0 /\ calls = EmptyBag
    /\ presentationState = "executing" /\ presentationStageStatus = "pending"
    /\ presentationRawProgress = Pct(5)

C34_PairMatchesReport ==
    presentationPolling
    => presentationExecutionId = ExecOf(presentationPollingReportName)

\* C35: while the submission requests of two report jobs are pending, the
\* first for an earlier session and the second for the session now open, the
\* completion of one of them leaves the job of the other as it is: the
\* lifecycle does not become success or error, the generating flag stays set
\* and the poll interval stays live.
C35_OtherSessionUntouched ==
    [][ /\ CopiesIn(ReportSubmission, calls) = 2
        /\ generatingReport /\ generatingReportSessionId = currentSession
        /\ reportGenerationState \in {"submitting", "running"}
        /\ GenerateReportFailed \/ \E reportName \in Reports : GenerateReportResponse(reportName)
        => /\ reportGenerationState' \notin {"success", "error"}
           /\ generatingReport'
           /\ timers'.reportPoll = timers.reportPoll ]_vars

\* C36: switchView leaves the presentation engine quiescent (lifecycle idle,
\* progress 0, no poll interval, no smoothing interval), and while no report
\* is selected again, no step (an answer to a poll, to a recovery query or to
\* a submission that was pending when the user left) ends that quiescence.
C36_QuiescentAfterSwitchView ==
    [][ /\ SwitchView("reports")
           => /\ presentationState' = "idle" /\ presentationProgress' = 0
              /\ timers'.presentationPoll = {} /\ timers'.presentationSmooth = 0
        /\ /\ selectedReport = "" /\ selectedReport' = ""
           /\ presentationState = "idle" /\ presentationProgress = 0
           /\ timers.presentationPoll = {} /\ timers.presentationSmooth = 0
           => /\ presentationState' = "idle" /\ presentationProgress' = 0
              /\ timers'.presentationPoll = {} /\ timers'.presentationSmooth = 0 ]_vars

\* C37: a smoothing interval is registered only while a job is active: the
\* presentation interval only while generatingSlides or presentationPolling
\* holds, the report interval only while the report lifecycle is submitting
\* or running.
C37_SmoothingOnlyWhileActive ==
    /\ timers.presentationSmooth > 0 => generatingSlides \/ presentationPolling
    /\ timers.reportSmooth > 0 => reportGenerationState \in {"submitting", "running"}

\* C38: an accepted generateReport leaves no hold timer and exactly one
\* transition timer, its own; and a hold timer never fires while the
\* submission request of a report job is still pending, where it would reset
\* the lifecycle of that job.
C38_EarlierTimersCancelled ==
    [][ /\ GenerateReport /\ ~(currentSession = "" \/ isGeneratingCurrentReport(This))
           => timers'.reportReset = 0 /\ timers'.reportTransition = 1
        /\ ReportResetTimer /\ Pending(ReportSubmission)
           => reportGenerationState' = reportGenerationState ]_vars

\* C39: when the recovery query is answered with neither an execution in
\* flight nor a pdf_url, or fails, the presentation engine ends in idle with
\* progress 0 and stage index 0, and no poll interval and no smoothing
\* interval is left, whatever the state before.
C39_RecoveryWithoutJobIsIdle ==
    [][ (\/ \E c \in PendingCalls : FetchPresentationStatusFailed(c)
         \/ \E c \in PendingCalls :
               FetchPresentationStatusResponse(c, Answer("", FALSE, "", << >>, "")))
        => /\ presentationState' = "idle"
           /\ presentationProgress' = 0 /\ presentationStageIndex' = 0
           /\ timers'.presentationPoll = {} /\ timers'.presentationSmooth = 0 ]_vars

====
